---- MODULE Spec2Model ----
(***************************************************************************)
(* Verification model of the semantic-communication-framework repository:  *)
(*   - BlockCodec (image_process/block_codec/block_codec.py): framing and  *)
(*     FEC of a byte payload, and its decoding from a possibly damaged     *)
(*     byte stream;                                                        *)
(*   - Modem (py5g_phy_comm/modulation.py): bit <-> symbol mapping;        *)
(*   - JPEG2000BGRDecoder / JPEGDecoder (image_recover/baseline): the      *)
(*     decode_image fallback chains around the external decompressor.      *)
(* Each component has its own specification (SpecCodec, SpecModem,         *)
(* SpecDecoder); the variables of the other components stay at their       *)
(* initial value.                                                          *)
(***************************************************************************)
EXTENDS Integers, Sequences, FiniteSets, TLC

VARIABLES
    \* ---- BlockCodec scenario ----
    cpc,          \* "idle" | "encoded" | "decoded"
    payload,      \* the bytes given to encode
    codec_type,   \* the codec tag given to encode
    enc,          \* the encoding BlockCodec instance: block_size, fec_strategy, fec_level
    frame,        \* the framed byte stream on its way to the decoder
    damage,       \* what happened to the stream: "none" | "corrupt" | "trunc"
    ncorrupt,     \* number of block bytes overwritten so far
    dec,          \* the decode call: made on the encoding instance or through block_decode, its codec tag, the decoding instance
    result,       \* the value decode returned: [none |-> BOOLEAN, data |-> bytes]
    \* ---- Modem scenario ----
    mpc,          \* "idle" | "modulated" | "demodulated" | "rejected" | "decided"
    modulation_type,
    input_bits,   \* the bits given to modulate
    symbols,      \* the symbols modulate returned
    output_bits,  \* the bits hard demodulation returned
    \* ---- decode_image scenario ----
    load_truncated_images,   \* PIL's process-wide ImageFile.LOAD_TRUNCATED_IMAGES
    dpc,          \* "idle" | "done"
    call,         \* the arguments of the decode_image call and the decompressor's behaviour
    outcome,      \* what decode_image did: returned image (and ratio) or a raised exception
    \* ---- SimpleTransmitter / SimpleReceiver scenario ----
    lpc,                 \* "idle" | "transmitted" | "received"
    link_modulation,     \* the modulation_type both ends were constructed with
    input_data,          \* the bytes given to transmit
    modulated_symbols,   \* SimpleTransmitter.modulated_symbols, handed over unmodified
    original_length,     \* the original_length argument of receive
    recovered_data,      \* SimpleReceiver.recovered_data
    \* ---- Channel scenario ----
    chan,            \* the channel object: kind, snr_dB, noise_std, is_complex, channel_gains, taps, delays
    chan_op,         \* the call just made on it
    chan_signal,     \* the signal given to the last propagate call
    chan_result,     \* what that call computed: output samples, per-tap contributions
    chan_calls,      \* propagate calls since noise_std was last reset
    \* ---- CommunicationSystem scenario ----
    sys_use_simple,       \* CommunicationSystem.use_simple
    sys_modulation_type,  \* CommunicationSystem.modulation_type
    sys_snr_dB,           \* CommunicationSystem.snr_dB
    sys_channel_type,     \* CommunicationSystem.channel_type
    sys_transmitter,      \* CommunicationSystem.transmitter.modem.modulation_type
    sys_receiver,         \* CommunicationSystem.receiver.modem.modulation_type
    sys_transmitter_type, \* CommunicationSystem.transmitter.modulation_type
    sys_receiver_type,    \* CommunicationSystem.receiver.modulation_type
    sys_channel,          \* CommunicationSystem.channel
    transmitted_data,     \* the stored results, None until a transmit_receive call sets them
    tx_signal,
    channel_output,
    received_data,
    error_rate,
    sys_op,               \* the call just made on the system
    sys_returned,         \* what the last transmit_receive call returned, None if it raised
    sys_raised,           \* the call just made raised an exception
    sys_equalize,         \* what the receiver's equalize did in the last transmit_receive call
    sys_calls,            \* calls made on the system since it was constructed (configuration scenario)
    \* ---- OFDM scenario ----
    ofdm_pc,              \* "idle", "framed" (ofdm_modulate returned), "deframed"
    ofdm_params,          \* nfft, nsc, cp_length of the Transmitter and the Receiver
    ofdm_input,           \* the symbols given to Transmitter.ofdm_modulate
    ofdm_sym_freq,        \* the frequency-domain rows the transmitter filled
    ofdm_tx_signal,       \* Transmitter.tx_signal
    ofdm_received,        \* Receiver.received_symbols
    \* ---- majority vote scenario ----
    vote_pc,              \* "idle", "voted" (_majority_vote returned)
    vote_blocks,          \* the copies given to BlockCodec._majority_vote
    vote_result,          \* the block it returned
    \* ---- legacy interleaver scenario ----
    il_pc,                \* "idle", "interleaved", "deinterleaved"
    il_fec_data,          \* the FEC body JPEGEncoder.encode_image interleaves
    il_interleaved,       \* interleaved_data of the encoder
    il_deinterleaved      \* deinterleaved_data of JPEGDecoder.decode_image

codecVars == <<cpc, payload, codec_type, enc, frame, damage, ncorrupt, dec, result>>
modemVars == <<mpc, modulation_type, input_bits, symbols, output_bits>>
decoderVars == <<load_truncated_images, dpc, call, outcome>>
linkVars == <<lpc, link_modulation, input_data, modulated_symbols, original_length,
              recovered_data>>
channelVars == <<chan, chan_op, chan_signal, chan_result, chan_calls>>
storedResults == <<transmitted_data, tx_signal, channel_output, received_data, error_rate>>
systemVars ==
    <<sys_use_simple, sys_modulation_type, sys_snr_dB, sys_channel_type, sys_transmitter,
      sys_receiver, sys_transmitter_type, sys_receiver_type, sys_channel, storedResults,
      sys_op, sys_returned, sys_raised, sys_equalize, sys_calls>>
ofdmVars ==
    <<ofdm_pc, ofdm_params, ofdm_input, ofdm_sym_freq, ofdm_tx_signal, ofdm_received>>
voteVars == <<vote_pc, vote_blocks, vote_result>>
interleaveVars == <<il_pc, il_fec_data, il_interleaved, il_deinterleaved>>
vars ==
    <<codecVars, modemVars, decoderVars, linkVars, channelVars, systemVars, ofdmVars, voteVars,
      interleaveVars>>

----------------------------------------------------------------------------
(* Bounds of the model *)

MaxLen == 2          \* longest payload given to encode
MaxBlockSize == 2    \* largest block_size of an encoding instance
MaxLevel == 3        \* largest fec_level of an encoding instance
MaxCorrupt == 2      \* most block bytes overwritten in one stream
MaxCut == 9          \* most trailing bytes the link drops from one stream

PayloadBytes == {0, 255}
CorruptBytes == {0, 255}

----------------------------------------------------------------------------
(* Python helpers *)

Min(a, b) == IF a <= b THEN a ELSE b

\* s[a:b] for 0 <= a, on a sequence indexed from 1
Slice(s, a, b) == SubSeq(s, a + 1, Min(b, Len(s)))

\* s[a:]
SliceFrom(s, a) == SubSeq(s, a + 1, Len(s))

\* struct.pack('>I', v)
PackU32(v) ==
    << ((v \div 16777216) % 256), ((v \div 65536) % 256), ((v \div 256) % 256), (v % 256) >>

\* struct.unpack('>I', b)[0] on exactly four bytes
UnpackU32(b) == (b[1] * 16777216) + (b[2] * 65536) + (b[3] * 256) + b[4]

\* struct.pack raises struct.error outside the field's range
FitsU32(v) == v >= 0 /\ (v \div 65536) < 65536
FitsU8(v) == v >= 0 /\ v < 256

RECURSIVE Concat(_)
\* b''.join(blocks)
Concat(blocks) ==
    IF blocks = << >> THEN << >> ELSE Head(blocks) \o Concat(Tail(blocks))

\* bitwise xor of two bytes
RECURSIVE XorByte(_, _)
XorByte(a, b) ==
    IF a = 0 /\ b = 0 THEN 0
    ELSE (((a % 2) + (b % 2)) % 2) + (2 * XorByte(a \div 2, b \div 2))

----------------------------------------------------------------------------
(* BlockCodec: block_codec.py *)

CodecTypes == {"jpeg", "jpeg2000", "jpeg2000bgr", "other"}
Strategies == {"repetition", "xor"}

\* BlockCodec.__init__ defaults, the instance block_decode constructs
DefaultCodec == [block_size |-> 1024, fec_strategy |-> "repetition", fec_level |-> 2]

\* marker_dict.get(codec_type, b'BLKX') as byte values
Marker(t) ==
    CASE t = "jpeg" -> <<66, 76, 75, 74>>
      [] t = "jpeg2000" -> <<66, 76, 75, 50>>
      [] t = "jpeg2000bgr" -> <<66, 76, 75, 66>>
      [] OTHER -> <<66, 76, 75, 88>>

\* the header without its reserved word
generate_frame_marker_noreserved(self, t, original_size) ==
    LET fec_strategy_code == IF self.fec_strategy = "repetition" THEN 0 ELSE 1
    IN  Marker(t) \o PackU32(original_size) \o PackU32(self.block_size)
            \o <<fec_strategy_code>> \o <<self.fec_level>>

generate_frame_marker(self, t, original_size) ==
    LET fec_strategy_code == IF self.fec_strategy = "repetition" THEN 0 ELSE 1
    IN  Marker(t) \o PackU32(original_size) \o PackU32(self.block_size) \o PackU32(0)
            \o <<fec_strategy_code>> \o <<self.fec_level>>

\* block.ljust(block_size, b'\x00')
Ljust(block, n) == block \o [k \in 1..(n - Len(block)) |-> 0]

RECURSIVE split_into_blocks(_, _)
split_into_blocks(self, data) ==
    IF data = << >> THEN << >>
    ELSE <<Ljust(Slice(data, 0, self.block_size), self.block_size)>>
            \o split_into_blocks(self, SliceFrom(data, self.block_size))

RECURSIVE repetition_encode(_, _)
repetition_encode(self, blocks) ==
    IF blocks = << >> THEN << >>
    ELSE [k \in 1..self.fec_level |-> Head(blocks)] \o repetition_encode(self, Tail(blocks))

RECURSIVE XorColumn(_, _, _)
\* parity_block[k] ^= block[k] over blocks[0..j-1]
XorColumn(blocks, j, k) ==
    IF j = 0 THEN 0 ELSE XorByte(XorColumn(blocks, j - 1, k), blocks[j][k])

xor_encode(self, blocks) ==
    IF blocks = << >> THEN << >>
    ELSE LET parity_block == [k \in 1..self.block_size |-> XorColumn(blocks, Len(blocks), k)]
         IN  blocks \o [i \in 1..self.fec_level |-> parity_block]

apply_fec(self, blocks) ==
    IF self.fec_strategy = "repetition" THEN repetition_encode(self, blocks)
    ELSE IF self.fec_strategy = "xor" THEN xor_encode(self, blocks)
    ELSE blocks

assemble_encoded_data(self, frame_marker, encoded_blocks) ==
    frame_marker \o PackU32(Len(encoded_blocks)) \o PackU32(self.block_size)
        \o Concat(encoded_blocks)

\* BlockCodec.encode
encode(self, data, t) ==
    assemble_encoded_data(self, generate_frame_marker(self, t, Len(data)),
                          apply_fec(self, split_into_blocks(self, data)))

\* struct.pack and range() accept the arguments of encode
EncodeAccepts(self, data) ==
    /\ self.block_size >= 1
    /\ FitsU32(Len(data)) /\ FitsU32(self.block_size) /\ FitsU8(self.fec_level)

NoneResult == [none |-> TRUE, data |-> << >>]
Returned(data) == [none |-> FALSE, data |-> data]

\* the marker is not compared
parse_frame_marker_anymarker(encoded_data, t) ==
    IF Len(encoded_data) < 18 THEN [original_size |-> -1, frame_end |-> -1]
    ELSE [original_size |-> UnpackU32(Slice(encoded_data, 4, 8)), frame_end |-> 18]

\* returns [original_size, frame_end]; original_size = -1 stands for (None, None)
parse_frame_marker(encoded_data, t) ==
    IF Len(encoded_data) < 18 THEN [original_size |-> -1, frame_end |-> -1]
    ELSE IF Slice(encoded_data, 0, 4) # Marker(t) THEN [original_size |-> -1, frame_end |-> -1]
    ELSE [original_size |-> UnpackU32(Slice(encoded_data, 4, 8)), frame_end |-> 18]

RECURSIVE ParseBlocksFrom(_, _, _, _)
\* the loop of _parse_encoded_blocks from index i on
ParseBlocksFrom(payload_data, i, block_count, block_size) ==
    IF i >= block_count THEN << >>
    ELSE LET block_start == 8 + i * block_size
             block_end == block_start + block_size
         IN  IF block_end > Len(payload_data) THEN << >>
             ELSE <<Slice(payload_data, block_start, block_end)>>
                    \o ParseBlocksFrom(payload_data, i + 1, block_count, block_size)

parse_encoded_blocks(payload_data) ==
    IF Len(payload_data) < 8 THEN << >>
    ELSE ParseBlocksFrom(payload_data, 0, UnpackU32(Slice(payload_data, 0, 4)),
                         UnpackU32(Slice(payload_data, 4, 8)))

\* the bytes at index i (from 1) of the blocks that are long enough, in block order
ColumnOf(blocks, i) ==
    LET idx == {k \in 1..Len(blocks) : i <= Len(blocks[k])}
        Pick[k \in 0..Len(blocks)] ==
            IF k = 0 THEN << >>
            ELSE IF k \in idx THEN Append(Pick[k - 1], blocks[k][i]) ELSE Pick[k - 1]
    IN  Pick[Len(blocks)]

Occurrences(col, v) == Cardinality({k \in 1..Len(col) : col[k] = v})

\* the numerically largest key of maximal count
MaxCountKey_largest(col) ==
    CHOOSE v \in {col[k] : k \in 1..Len(col)} :
        /\ \A j \in 1..Len(col) : Occurrences(col, col[j]) <= Occurrences(col, v)
        /\ \A j \in 1..Len(col) :
                Occurrences(col, col[j]) = Occurrences(col, v) => col[j] <= v

\* max(byte_counts, key=byte_counts.get): the first inserted key of maximal count
MaxCountKey(col) ==
    LET k == CHOOSE k \in 1..Len(col) :
                /\ \A j \in 1..Len(col) : Occurrences(col, col[j]) <= Occurrences(col, col[k])
                /\ \A j \in 1..(k - 1) : Occurrences(col, col[j]) < Occurrences(col, col[k])
    IN  col[k]

\* no vote: the first copy is taken
majority_vote_firstcopy(blocks) ==
    IF blocks = << >> THEN << >> ELSE blocks[1]

majority_vote(blocks) ==
    IF blocks = << >> THEN << >>
    ELSE [i \in 1..Len(blocks[1]) |->
            LET col == ColumnOf(blocks, i)
            IN  IF col # << >> THEN MaxCountKey(col) ELSE 0]

RECURSIVE RepetitionGroups(_, _)
\* the loop of _repetition_decode with group_size >= 1
RepetitionGroups(encoded_blocks, group_size) ==
    IF encoded_blocks = << >> THEN << >>
    ELSE <<majority_vote(Slice(encoded_blocks, 0, group_size))>>
            \o RepetitionGroups(SliceFrom(encoded_blocks, Min(group_size, Len(encoded_blocks))),
                                group_size)

\* [raised, blocks]: range() raises ValueError on a zero step
repetition_decode(self, encoded_blocks) ==
    IF encoded_blocks = << >> THEN [raised |-> FALSE, blocks |-> << >>]
    ELSE IF self.fec_level = 0 THEN [raised |-> TRUE, blocks |-> << >>]
    ELSE [raised |-> FALSE, blocks |-> RepetitionGroups(encoded_blocks, self.fec_level)]

xor_decode(self, encoded_blocks) ==
    IF encoded_blocks = << >> THEN << >>
    ELSE LET block_count == Len(encoded_blocks) - self.fec_level
         IN  IF block_count <= 0 THEN << >> ELSE Slice(encoded_blocks, 0, block_count)

recover_from_fec(self, encoded_blocks) ==
    IF self.fec_strategy = "repetition" THEN repetition_decode(self, encoded_blocks)
    ELSE IF self.fec_strategy = "xor"
         THEN [raised |-> FALSE, blocks |-> xor_decode(self, encoded_blocks)]
    ELSE [raised |-> FALSE, blocks |-> encoded_blocks]

\* the padding of the last block is kept
assemble_from_blocks_padded(blocks, original_size) ==
    Concat(blocks)

assemble_from_blocks(blocks, original_size) ==
    Slice(Concat(blocks), 0, original_size)

\* BlockCodec.decode
decode(self, encoded_data, t) ==
    LET marker == parse_frame_marker(encoded_data, t)
    IN  IF marker.original_size = -1 THEN NoneResult
        ELSE LET encoded_blocks == parse_encoded_blocks(SliceFrom(encoded_data, marker.frame_end))
                 recovered == recover_from_fec(self, encoded_blocks)
             IN  IF recovered.raised THEN NoneResult
                 ELSE Returned(assemble_from_blocks(recovered.blocks, marker.original_size))

\* block_encode and block_decode, the module-level convenience functions
block_encode(data, t, block_size, fec_strategy, fec_level) ==
    encode([block_size |-> block_size, fec_strategy |-> fec_strategy, fec_level |-> fec_level],
           data, t)

block_decode(encoded_data, t) == decode(DefaultCodec, encoded_data, t)

----------------------------------------------------------------------------
(* The BlockCodec scenario: a payload is encoded by one instance, the     *)
(* framed bytes cross a link that may overwrite block bytes or cut the    *)
(* stream short, and the stream is decoded, by the encoding instance or   *)
(* by block_decode's default instance.                                    *)

\* all sequences over S of length at most n
SeqsUpTo(S, n) == UNION {[1..k -> S] : k \in 0..n}

Payloads == SeqsUpTo(PayloadBytes, MaxLen)

Codecs ==
    [block_size : 1..MaxBlockSize, fec_strategy : Strategies, fec_level : 1..MaxLevel]

InitCodec ==
    /\ cpc = "idle"
    /\ payload = << >>
    /\ codec_type = "jpeg"
    /\ enc = DefaultCodec
    /\ frame = << >>
    /\ damage = "none"
    /\ ncorrupt = 0
    /\ dec = [by |-> "instance", codec_type |-> "jpeg", codec |-> DefaultCodec]
    /\ result = NoneResult

\* codec = BlockCodec(...); frame = codec.encode(data, t)
Encode(self, data, t) ==
    /\ cpc = "idle"
    /\ EncodeAccepts(self, data)
    /\ cpc' = "encoded"
    /\ payload' = data
    /\ codec_type' = t
    /\ enc' = self
    /\ frame' = encode(self, data, t)
    /\ UNCHANGED <<damage, ncorrupt, dec, result>>

\* the link overwrites one byte of the block area that is still intact
CorruptBlockByte(i, v) ==
    /\ cpc = "encoded"
    /\ damage \in {"none", "corrupt"}
    /\ ncorrupt < MaxCorrupt
    /\ i \in 27..Len(frame)
    /\ v # frame[i]
    /\ frame[i] = encode(enc, payload, codec_type)[i]
    /\ frame' = [frame EXCEPT ![i] = v]
    /\ damage' = "corrupt"
    /\ ncorrupt' = ncorrupt + 1
    /\ UNCHANGED <<cpc, payload, codec_type, enc, dec, result>>

\* the link drops the last k bytes
Truncate(k) ==
    /\ cpc = "encoded"
    /\ damage = "none"
    /\ k \in 1..Min(MaxCut, Len(frame))
    /\ frame' = Slice(frame, 0, Len(frame) - k)
    /\ damage' = "trunc"
    /\ UNCHANGED <<cpc, payload, codec_type, enc, ncorrupt, dec, result>>

\* the encoding instance decodes: codec.decode(frame, t); a stream with
\* overwritten block bytes is decoded under the tag it was framed with (the
\* tag is compared with the marker alone, which the link left intact)
Decode(t) ==
    /\ cpc = "encoded"
    /\ damage = "corrupt" => t = codec_type
    /\ cpc' = "decoded"
    /\ dec' = [by |-> "instance", codec_type |-> t, codec |-> enc]
    /\ result' = decode(enc, frame, t)
    /\ UNCHANGED <<payload, codec_type, enc, frame, damage, ncorrupt>>

\* block_decode(frame, t), of a stream as sent or cut short
BlockDecode(t) ==
    /\ cpc = "encoded"
    /\ damage # "corrupt"
    /\ cpc' = "decoded"
    /\ dec' = [by |-> "block_decode", codec_type |-> t, codec |-> DefaultCodec]
    /\ result' = block_decode(frame, t)
    /\ UNCHANGED <<payload, codec_type, enc, frame, damage, ncorrupt>>

\* the scenario starts over with a new payload
NextPayload ==
    /\ cpc = "decoded"
    /\ cpc' = "idle"
    /\ payload' = << >>
    /\ codec_type' = "jpeg"
    /\ enc' = DefaultCodec
    /\ frame' = << >>
    /\ damage' = "none"
    /\ ncorrupt' = 0
    /\ dec' = [by |-> "instance", codec_type |-> "jpeg", codec |-> DefaultCodec]
    /\ result' = NoneResult

----------------------------------------------------------------------------
(* Modem: modulation.py.  A symbol is kept as [re, im, norm2] and stands   *)
(* for (re + j*im) / sqrt(norm2): re and im are the integer coordinates    *)
(* _map_bits_to_symbol computes before it divides by the normalization.    *)

ModulationTypes == {"pi/2-bpsk", "bpsk", "qpsk", "16qam", "64qam", "256qam"}

\* mod_params[...]['bits_per_symbol']
bits_per_symbol(m) ==
    CASE m = "pi/2-bpsk" -> 1
      [] m = "bpsk" -> 1
      [] m = "qpsk" -> 2
      [] m = "16qam" -> 4
      [] m = "64qam" -> 6
      [] m = "256qam" -> 8

\* the square of mod_params[...]['normalization']
normalization2(m) ==
    CASE m = "pi/2-bpsk" -> 2
      [] m = "bpsk" -> 2
      [] m = "qpsk" -> 2
      [] m = "16qam" -> 10
      [] m = "64qam" -> 42
      [] m = "256qam" -> 170

Abs(x) == IF x < 0 THEN -x ELSE x

\* bits: the chunk of one symbol (indexed from 1); rotated: np.random.rand() > 0.5
\* came out false, which only pi/2-bpsk asks for
map_bits_to_symbol(m, bits, rotated) ==
    LET a == 1 - 2 * bits[1]
        re == CASE m = "bpsk" -> a
                [] m = "pi/2-bpsk" -> IF rotated THEN 0 ELSE a
                [] m = "qpsk" -> a
                [] m = "16qam" -> a * (2 - (1 - 2 * bits[3]))
                [] m = "64qam" -> a * (4 - (1 - 2 * bits[3]) * (2 - (1 - 2 * bits[5])))
                [] m = "256qam" ->
                     a * (8 - (1 - 2 * bits[3]) * (4 - (1 - 2 * bits[5]) * (2 - (1 - 2 * bits[7]))))
        im == CASE m = "bpsk" -> 0
                [] m = "pi/2-bpsk" -> IF rotated THEN a ELSE 0
                [] m = "qpsk" -> 1 - 2 * bits[2]
                [] m = "16qam" -> (1 - 2 * bits[2]) * (2 - (1 - 2 * bits[4]))
                [] m = "64qam" ->
                     (1 - 2 * bits[2]) * (4 - (1 - 2 * bits[4]) * (2 - (1 - 2 * bits[6])))
                [] m = "256qam" ->
                     (1 - 2 * bits[2])
                        * (8 - (1 - 2 * bits[4]) * (4 - (1 - 2 * bits[6]) * (2 - (1 - 2 * bits[8]))))
    IN  [re |-> re, im |-> im, norm2 |-> normalization2(m)]

\* Modem.modulate on a bit count that is a multiple of bits_per_symbol
modulate(m, bits, rotation) ==
    [i \in 1..(Len(bits) \div bits_per_symbol(m)) |->
        map_bits_to_symbol(m,
            SubSeq(bits, (i - 1) * bits_per_symbol(m) + 1, i * bits_per_symbol(m)),
            rotation[i])]

\* symbol.real * self.normalization and symbol.imag * self.normalization: the
\* coordinate before normalization when the symbol is of this modem's scheme
scaled_real(m, symbol) == symbol.re
scaled_imag(m, symbol) == symbol.im

symbol_to_bits_hard(m, symbol) ==
    LET sr == scaled_real(m, symbol)
        si == scaled_imag(m, symbol)
        bit0 == IF symbol.re > 0 THEN 0 ELSE 1
        bit1 == IF symbol.im > 0 THEN 0 ELSE 1
    IN  CASE m \in {"bpsk", "pi/2-bpsk"} -> <<bit0>>
          [] m = "qpsk" -> <<bit0, bit1>>
          [] m = "16qam" ->
                <<bit0, bit1, IF Abs(sr) < 2 THEN 0 ELSE 1, IF Abs(si) < 2 THEN 0 ELSE 1>>
          [] m = "64qam" ->
                <<bit0, bit1, IF Abs(sr) < 4 THEN 0 ELSE 1, IF Abs(si) < 4 THEN 0 ELSE 1,
                  IF Abs(sr) > 2 /\ Abs(sr) < 6 THEN 0 ELSE 1,
                  IF Abs(si) > 2 /\ Abs(si) < 6 THEN 0 ELSE 1>>
          [] m = "256qam" ->
                <<bit0, bit1, IF Abs(sr) < 8 THEN 0 ELSE 1, IF Abs(si) < 8 THEN 0 ELSE 1,
                  IF Abs(sr) < 4 THEN 0 ELSE 1, IF Abs(si) < 4 THEN 0 ELSE 1,
                  IF Abs(sr) < 2 THEN 0 ELSE 1, IF Abs(si) < 2 THEN 0 ELSE 1>>

\* Modem._hard_demodulate
hard_demodulate(m, syms) ==
    Concat([i \in 1..Len(syms) |-> symbol_to_bits_hard(m, syms[i])])

\* dec2bitarray(decimal, length): the binary digits, most significant first
dec2bitarray(decimal, length) ==
    [i \in 1..length |-> (decimal \div (2 ^ (length - i))) % 2]

\* Modem._generate_constellation: entry i holds the bits of i and their point
generate_constellation(m) ==
    [i \in 0..((2 ^ bits_per_symbol(m)) - 1) |->
        [bits |-> dec2bitarray(i, bits_per_symbol(m)),
         point |-> map_bits_to_symbol(m, dec2bitarray(i, bits_per_symbol(m)), FALSE)]]

\* np.abs(symbol - point) ** 2, times normalization^2
Distance2(symbol, point) ==
    ((symbol.re - point.re) * (symbol.re - point.re))
        + ((symbol.im - point.im) * (symbol.im - point.im))

\* Modem._soft_demodulate: np.min(distances[idx]) over the constellation points
\* whose bit at bit_pos (from 1) is the given one
min_dist(m, symbol, bit_pos, bit) ==
    LET constellation == generate_constellation(m)
        distances == {Distance2(symbol, constellation[i].point) :
                        i \in {j \in DOMAIN constellation :
                                    constellation[j].bits[bit_pos] = bit}}
    IN  CHOOSE d \in distances : \A e \in distances : d <= e

\* Modem._soft_demodulate: the LLR of one bit, times noise_var * normalization^2
soft_llr(m, symbol, bit_pos) ==
    min_dist(m, symbol, bit_pos, 1) - min_dist(m, symbol, bit_pos, 0)

----------------------------------------------------------------------------
(* The Modem scenario: bits are modulated and the symbols are handed,      *)
(* without noise, to the hard demodulator of the same modem.               *)

MaxBits == 8       \* longest bit sequence given to modulate
MaxSymbols == 3    \* most symbols of one modulate call

BitSeqs == SeqsUpTo({0, 1}, MaxBits)

InitModem ==
    /\ mpc = "idle"
    /\ modulation_type = "bpsk"
    /\ input_bits = << >>
    /\ symbols = << >>
    /\ output_bits = << >>

\* the outcomes of the n draws of np.random.rand() > 0.5 that pi/2-bpsk makes
Rotations(m, n) ==
    IF m = "pi/2-bpsk" THEN [1..n -> BOOLEAN] ELSE {[i \in 1..n |-> FALSE]}

\* modem = Modem(m); symbols = modem.modulate(bits)
Modulate(m, bits, rotation) ==
    /\ mpc = "idle"
    /\ Len(bits) % bits_per_symbol(m) = 0
    /\ Len(bits) \div bits_per_symbol(m) <= MaxSymbols
    /\ rotation \in Rotations(m, Len(bits) \div bits_per_symbol(m))
    /\ mpc' = "modulated"
    /\ modulation_type' = m
    /\ input_bits' = bits
    /\ symbols' = modulate(m, bits, rotation)
    /\ UNCHANGED output_bits

\* modem.modulate raises ValueError on any other bit count
ModulateRejects(m, bits) ==
    /\ mpc = "idle"
    /\ Len(bits) % bits_per_symbol(m) # 0
    /\ mpc' = "rejected"
    /\ modulation_type' = m
    /\ input_bits' = bits
    /\ UNCHANGED <<symbols, output_bits>>

\* bits = modem.demodulate(symbols, 'hard')
Demodulate ==
    /\ mpc = "modulated"
    /\ mpc' = "demodulated"
    /\ output_bits' = hard_demodulate(modulation_type, symbols)
    /\ UNCHANGED <<modulation_type, input_bits, symbols>>

\* the schemes with a fixed constellation on both axes
QamTypes == {"qpsk", "16qam", "64qam", "256qam"}

\* largest coordinate, before normalization, of a received point
MaxCoordinate == 17

\* received points off every decision boundary: the boundaries of the hard
\* decisions and of the minimum-distance decisions lie at even coordinates, so
\* the points of odd coordinates stand for all regions between them
ReceivedPoints(m) ==
    {[re |-> x, im |-> y, norm2 |-> normalization2(m)] :
        x \in {c \in (-MaxCoordinate)..MaxCoordinate : c % 2 = 1},
        y \in {c \in (-MaxCoordinate)..MaxCoordinate : c % 2 = 1}}

\* bits = Modem(m).demodulate(np.array([point]), 'hard') for a received point
DemodulateReceived(m, point) ==
    /\ mpc = "idle"
    /\ mpc' = "decided"
    /\ modulation_type' = m
    /\ input_bits' = << >>
    /\ symbols' = <<point>>
    /\ output_bits' = hard_demodulate(m, <<point>>)

NextBits ==
    /\ mpc \in {"demodulated", "rejected", "decided"}
    /\ mpc' = "idle"
    /\ modulation_type' = "bpsk"
    /\ input_bits' = << >>
    /\ symbols' = << >>
    /\ output_bits' = << >>

----------------------------------------------------------------------------
(* Images and the external decompressor.  An image is [w, h, px]: px holds *)
(* the w*h pixels row by row, each pixel one gray level v standing for the *)
(* RGB triple (v, v, v).  The decompressor (PIL's Image.open / load) is    *)
(* not part of the repository: a decode_image call is given an oracle      *)
(* [succeeds_at, image] saying which of its decompression attempts, in the *)
(* order the call makes them, is the first to succeed (0: none) and with   *)
(* which image.                                                            *)

MaxPixels == 2     \* most pixels of a decoded image and of an expected size

PixelValues == {0, 40, 200}
Gray == 128

Sizes == {sz \in (1..MaxPixels) \X (1..MaxPixels) : sz[1] * sz[2] <= MaxPixels}

Images ==
    UNION {[w : {sz[1]}, h : {sz[2]}, px : [1..(sz[1] * sz[2]) -> PixelValues]] : sz \in Sizes}

NeverOpens == [succeeds_at |-> 0, image |-> [w |-> 1, h |-> 1, px |-> <<0>>]]

\* the oracles that tell apart the calls making n decompression attempts
Oracles(n) == {NeverOpens} \cup [succeeds_at : 1..n, image : Images]

\* Image.new('RGB', size, (128, 128, 128))
GrayImage(size) ==
    [w |-> size[1], h |-> size[2], px |-> [k \in 1..(size[1] * size[2]) |-> Gray]]

RECURSIVE SumSeq(_)
SumSeq(q) == IF q = << >> THEN 0 ELSE Head(q) + SumSeq(Tail(q))

\* np.all((image_np >= [0, 0, 0]) & (image_np <= [10, 10, 10]), axis=2) at one pixel
IsBlack(v) == v >= 0 /\ v <= 10

\* the gray canvas of the expected size with the image pasted at
\* ((ew - w) // 2, (eh - h) // 2); PIL clips what falls outside
PasteCentered(image, expected_size) ==
    LET ew == expected_size[1]
        eh == expected_size[2]
        paste_x == (ew - image.w) \div 2
        paste_y == (eh - image.h) \div 2
    IN  [w |-> ew, h |-> eh,
         px |-> [k \in 1..(ew * eh) |->
                    LET x == ((k - 1) % ew) - paste_x
                        y == ((k - 1) \div ew) - paste_y
                    IN  IF x >= 0 /\ x < image.w /\ y >= 0 /\ y < image.h
                        THEN image.px[y * image.w + x + 1]
                        ELSE Gray]]

\* image_np[black_mask] = [128, 128, 128]
BlackToGray(image) ==
    [image EXCEPT !.px = [k \in DOMAIN image.px |->
                            IF IsBlack(image.px[k]) THEN Gray ELSE image.px[k]]]

\* a recovery ratio is the fraction num / den
Ratio(num, den) == [num |-> num, den |-> den]
NoRatio == [num |-> -1, den |-> 1]     \* the decoder returns the image alone

\* calculate_recovery_ratio, local to JPEG2000BGRDecoder.decode_image
calculate_recovery_ratio(image, expected_size) ==
    IF <<image.w, image.h>> # expected_size
    THEN Ratio(image.w * image.h, expected_size[1] * expected_size[2])
    ELSE IF SumSeq(image.px) > 50 * Len(image.px) THEN Ratio(1, 1)
    ELSE Ratio(Cardinality({k \in DOMAIN image.px : ~IsBlack(image.px[k])}),
               image.w * image.h)

\* fix_image, local to JPEG2000BGRDecoder.decode_image
fix_image(image, expected_size) ==
    IF <<image.w, image.h>> # expected_size THEN PasteCentered(image, expected_size)
    ELSE IF SumSeq(image.px) < 10 * Len(image.px)
            /\ \E k \in DOMAIN image.px : IsBlack(image.px[k])
         THEN BlackToGray(image)
    ELSE image

\* fix_black_regions, local to JPEGDecoder.decode_image
fix_black_regions(image, expected_size) ==
    IF <<image.w, image.h>> # expected_size THEN PasteCentered(image, expected_size)
    ELSE IF SumSeq(image.px) < 10 * Len(image.px)
         THEN IF \E k \in DOMAIN image.px : IsBlack(image.px[k])
              THEN BlackToGray(image)
              ELSE GrayImage(expected_size)
    ELSE image

----------------------------------------------------------------------------
(* Byte-string helpers of the decoders *)

StartsWith(s, pat) == Len(s) >= Len(pat) /\ SubSeq(s, 1, Len(pat)) = pat

\* s.find(pat, start): the lowest 0-based index >= start where pat occurs, or -1
Find(s, pat, start) ==
    LET hits == {i \in start..(Len(s) - Len(pat)) : SubSeq(s, i + 1, i + Len(pat)) = pat}
    IN  IF hits = {} THEN -1 ELSE CHOOSE i \in hits : \A j \in hits : i <= j

BLKB == <<66, 76, 75, 66>>
JP2B == <<74, 80, 50, 66>>
JPEG == <<74, 80, 69, 71>>
SOI == <<255, 216>>
EOI == <<255, 217>>

----------------------------------------------------------------------------
(* JPEG2000BGRDecoder: jpeg2000bgr_decoder.py *)

\* _detect_frame_type: struct.unpack raises struct.error when data[4:8] is short
detect_frame_type_raises(data) ==
    (StartsWith(data, BLKB) \/ StartsWith(data, JP2B)) /\ Len(Slice(data, 4, 8)) # 4

\* _detect_frame_type where it returns: [frame_type, original_size, frame_data]
detect_frame_type(data) ==
    IF StartsWith(data, BLKB)
    THEN [frame_type |-> "block_jpeg2000bgr", original_size |-> UnpackU32(Slice(data, 4, 8)),
          frame_data |-> SliceFrom(data, 8)]
    ELSE IF StartsWith(data, JP2B)
    THEN [frame_type |-> "legacy_jpeg2000bgr", original_size |-> UnpackU32(Slice(data, 4, 8)),
          frame_data |-> SliceFrom(data, 8)]
    ELSE [frame_type |-> "unknown", original_size |-> 0, frame_data |-> data]

\* max(set(block), key=block.count): a most frequent byte of the block; among
\* equally frequent bytes the iteration order of the set decides
MostFrequent(block) ==
    CHOOSE v \in {block[k] : k \in DOMAIN block} :
        \A u \in {block[k] : k \in DOMAIN block} : Occurrences(block, u) <= Occurrences(block, v)

RECURSIVE RepeatDecodeFrom(_, _)
RepeatDecodeFrom(data, repeat) ==
    IF data = << >> THEN << >>
    ELSE IF repeat <= Len(data)
         THEN <<MostFrequent(Slice(data, 0, repeat))>> \o RepeatDecodeFrom(SliceFrom(data, repeat), repeat)
         ELSE data

simple_repeat_decode(data, repeat) ==
    IF repeat <= 1 THEN data ELSE RepeatDecodeFrom(data, repeat)

\* result[:expected_size] when expected_size and len(result) > expected_size
CutToExpected(res, expected_size) ==
    IF expected_size # 0 /\ Len(res) > expected_size THEN Slice(res, 0, expected_size) ELSE res

decode_block_data(self_block_codec, data, expected_size) ==
    LET jpeg_data == decode(self_block_codec, data, "jpeg2000bgr")
        header_size == IF expected_size > 100 THEN 100 ELSE expected_size
        body_size == IF expected_size > 100 THEN expected_size - 100 ELSE 0
        encoded_header_size == header_size * 4
        encoded_body_size == IF body_size > 0 THEN body_size * 2 ELSE 0
        encoded_header == Slice(data, 0, encoded_header_size)
        remaining == SliceFrom(data, Min(encoded_header_size, Len(data)))
    IN  IF ~jpeg_data.none /\ jpeg_data.data # << >> THEN jpeg_data.data
        ELSE CutToExpected(
                IF Len(data) >= encoded_header_size + encoded_body_size
                THEN IF encoded_body_size > 0 /\ Len(remaining) >= encoded_body_size
                     THEN simple_repeat_decode(encoded_header, 4)
                            \o simple_repeat_decode(Slice(remaining, 0, encoded_body_size), 2)
                     ELSE simple_repeat_decode(encoded_header, 4) \o remaining
                ELSE simple_repeat_decode(data, 3),
                expected_size)

decode_legacy_data(data, expected_size) ==
    LET header_size == IF expected_size > 100 THEN 100 ELSE expected_size
        body_size == IF expected_size > 100 THEN expected_size - 100 ELSE 0
        encoded_header_size == header_size * 2
        encoded_body_size == IF body_size > 0 THEN body_size ELSE 0
        encoded_header == Slice(data, 0, encoded_header_size)
        remaining == SliceFrom(data, Min(encoded_header_size, Len(data)))
    IN  CutToExpected(
            IF Len(data) >= encoded_header_size + encoded_body_size
            THEN IF encoded_body_size > 0 /\ Len(remaining) >= encoded_body_size
                 THEN simple_repeat_decode(encoded_header, 2) \o Slice(remaining, 0, encoded_body_size)
                 ELSE simple_repeat_decode(encoded_header, 2) \o remaining
            ELSE data,
            expected_size)

\* what a decode_image call did
RaisedOutcome == [kind |-> "raised", source |-> "none", attempts |-> << >>,
                  image |-> GrayImage(<<1, 1>>), ratio |-> NoRatio]
ImageOutcome(source, attempts, image, ratio) ==
    [kind |-> "returned", source |-> source, attempts |-> attempts,
     image |-> image, ratio |-> ratio]

\* width and height of the placeholder are exchanged
jp2_placeholder_transposed(attempts, default_size) ==
    ImageOutcome("placeholder", attempts, GrayImage(<<default_size[2], default_size[1]>>),
                 Ratio(0, 1))

\* the tail of JPEG2000BGRDecoder.decode_image: the gray image of default_size, ratio 0.0
jp2_placeholder(attempts, default_size) ==
    ImageOutcome("placeholder", attempts, GrayImage(default_size), Ratio(0, 1))

\* the branch taken when _try_open_jpeg2000 returned an image
jp2_success(source, attempts, image, default_size) ==
    ImageOutcome(source, attempts, fix_image(image, default_size),
                 calculate_recovery_ratio(image, default_size))

\* JPEG2000BGRDecoder.decode_image(framed_data, 'pil', default_size) on a decoder
\* built with use_block_codec; its block_codec is BlockCodec()
JPEG2000BGRDecoder_decode_image(use_block_codec, framed_data, default_size, oracle) ==
    IF detect_frame_type_raises(framed_data) THEN RaisedOutcome
    ELSE
    LET detected == detect_frame_type(framed_data)
    IN  IF detected.frame_type = "block_jpeg2000bgr" /\ use_block_codec
        THEN LET jpeg_data == decode(DefaultCodec, framed_data, "jpeg2000bgr")
             IN  IF jpeg_data.none \/ jpeg_data.data = << >>
                 THEN jp2_placeholder(<< >>, default_size)
                 ELSE IF oracle.succeeds_at = 1
                 THEN jp2_success("block", <<"block">>, oracle.image, default_size)
                 ELSE IF decode_block_data(DefaultCodec, detected.frame_data,
                                           detected.original_size) = << >>
                 THEN jp2_placeholder(<<"block">>, default_size)
                 ELSE IF oracle.succeeds_at = 2
                 THEN jp2_success("block_fallback", <<"block", "block_fallback">>,
                                  oracle.image, default_size)
                 ELSE jp2_placeholder(<<"block", "block_fallback">>, default_size)
        ELSE IF detected.frame_type = "legacy_jpeg2000bgr"
        THEN IF decode_legacy_data(detected.frame_data, detected.original_size) = << >>
             THEN jp2_placeholder(<< >>, default_size)
             ELSE IF oracle.succeeds_at = 1
             THEN jp2_success("legacy", <<"legacy">>, oracle.image, default_size)
             ELSE jp2_placeholder(<<"legacy">>, default_size)
        ELSE jp2_placeholder(<< >>, default_size)

\* decompression attempts of the call, over all oracles
JPEG2000BGRDecoder_attempts(use_block_codec, framed_data) ==
    Len(JPEG2000BGRDecoder_decode_image(use_block_codec, framed_data, <<1, 1>>,
                                        NeverOpens).attempts)

\* the byte strings of a stream that the decompressor can be asked about: the
\* ones a decoder built with use_block_codec hands it, whether or not the
\* decoder of the call does
DecompressorInputs(framed_data) == JPEG2000BGRDecoder_attempts(TRUE, framed_data)

----------------------------------------------------------------------------
(* Legacy JPEG framing: image_process/baseline/jpeg_encoder.py and         *)
(* image_recover/baseline/jpeg_decoder.py                                  *)

\* JPEGEncoder.encode_image from the compressed bytes on: repetition FEC,
\* 16-byte block interleaving, frame marker
legacy_fec(jpeg_data) ==
    IF Len(jpeg_data) > 100
    THEN Slice(jpeg_data, 0, 100) \o Slice(jpeg_data, 0, 100) \o SliceFrom(jpeg_data, 100)
    ELSE jpeg_data \o jpeg_data

\* the padded blocks one after the other, not transposed
interleave_untransposed(fec_data) ==
    LET block_size == 16
        num_blocks == (Len(fec_data) + block_size - 1) \div block_size
    IN  Ljust(fec_data, num_blocks * block_size)

\* step 2 of encode_image: byte i of every padded 16-byte block, for i = 0 .. 15
interleave(fec_data) ==
    LET block_size == 16
        num_blocks == (Len(fec_data) + block_size - 1) \div block_size
        padded_data == Ljust(fec_data, num_blocks * block_size)
    IN  [k \in 1..(num_blocks * block_size) |->
            LET i == (k - 1) \div num_blocks      \* column
                b == (k - 1) % num_blocks         \* block
            IN  padded_data[b * block_size + i + 1]]

legacy_frame(jpeg_data) ==
    JPEG \o PackU32(Len(jpeg_data)) \o interleave(legacy_fec(jpeg_data))

\* JPEGDecoder.decode_image, strategy 1, step 1: blocks[i % num_blocks] += byte
deinterleave(interleaved_data) ==
    LET block_size == 16
        n == Len(interleaved_data)
        num_blocks == (n \div block_size) + (IF n % block_size # 0 THEN 1 ELSE 0)
    IN  Concat([b \in 1..num_blocks |->
                  [j \in 1..((n - (b - 1) + num_blocks - 1) \div num_blocks) |->
                      interleaved_data[(b - 1) + (j - 1) * num_blocks + 1]]])

\* strategy 1, step 2: the bytes from SOI to EOI, or from SOI on, or all of them
extract_jpeg(deinterleaved_data) ==
    LET soi_pos == Find(deinterleaved_data, SOI, 0)
        eoi_pos == Find(deinterleaved_data, EOI, soi_pos)
    IN  IF soi_pos = -1 THEN deinterleaved_data
        ELSE IF eoi_pos # -1 THEN Slice(deinterleaved_data, soi_pos, eoi_pos + 2)
        ELSE SliceFrom(deinterleaved_data, soi_pos)

\* JPEGDecoder._remove_repeated_fec
remove_repeated_fec(data) ==
    IF Len(data) <= 1 THEN data
    ELSE IF Len(data) > 200 /\ Slice(data, 0, 100) = Slice(data, 100, 200)
    THEN Slice(data, 0, 100) \o SliceFrom(data, 200)
    ELSE IF Len(data) > 100 /\ Len(data) % 2 = 0
            /\ data = Slice(data, 0, Len(data) \div 2) \o Slice(data, 0, Len(data) \div 2)
    THEN Slice(data, 0, Len(data) \div 2)
    ELSE data

Attempt(strategy, data) == [strategy |-> strategy, data |-> data]

\* strategy 1: the frame marker b'JPEG' and the four length bytes are there
\* (struct.error otherwise, caught), one decompression attempt
framed_attempts(framed_data) ==
    LET frame_start == Find(framed_data, JPEG, 0)
    IN  IF frame_start = -1 \/ Len(Slice(framed_data, frame_start + 4, frame_start + 8)) # 4
        THEN << >>
        ELSE <<Attempt("framed",
                  remove_repeated_fec(extract_jpeg(deinterleave(
                      SliceFrom(framed_data, Min(frame_start + 8, Len(framed_data)))))))>>

RECURSIVE SoiPositions(_, _)
\* strategy 2: the loop collecting soi_positions from search_pos on
SoiPositions(framed_data, search_pos) ==
    LET soi_pos == Find(framed_data, SOI, search_pos)
    IN  IF soi_pos = -1 THEN << >>
        ELSE <<soi_pos>> \o SoiPositions(framed_data, soi_pos + 2)

\* strategy 2: one attempt per SOI, on the bytes up to the next EOI or the end
boundary_attempts(framed_data) ==
    LET soi_positions == SoiPositions(framed_data, 0)
    IN  [k \in 1..Len(soi_positions) |->
            LET eoi_pos == Find(framed_data, EOI, soi_positions[k])
            IN  Attempt("boundary",
                    IF eoi_pos # -1 THEN Slice(framed_data, soi_positions[k], eoi_pos + 2)
                    ELSE SliceFrom(framed_data, soi_positions[k]))]

\* strategy 3: the whole stream
whole_attempts(framed_data) == <<Attempt("whole", framed_data)>>

\* strategy 4: with LOAD_TRUNCATED_IMAGES set, the bytes from the first SOI on
truncated_attempts(framed_data) ==
    LET soi_pos == Find(framed_data, SOI, 0)
    IN  IF soi_pos = -1 THEN << >>
        ELSE <<Attempt("truncated", SliceFrom(framed_data, soi_pos))>>

\* the whole stream is tried before the SOI/EOI boundaries
JPEGDecoder_attempts_wholefirst(framed_data) ==
    framed_attempts(framed_data) \o whole_attempts(framed_data)
        \o boundary_attempts(framed_data) \o truncated_attempts(framed_data)

\* the decompression attempts of JPEGDecoder.decode_image in the order it
\* makes them while each one fails
JPEGDecoder_attempts(framed_data) ==
    framed_attempts(framed_data) \o boundary_attempts(framed_data)
        \o whole_attempts(framed_data) \o truncated_attempts(framed_data)

\* the decompressor opens nothing from no bytes
FirstSuccess(attempts, oracle) ==
    IF oracle.succeeds_at \in 1..Len(attempts) /\ attempts[oracle.succeeds_at].data # << >>
    THEN oracle.succeeds_at ELSE 0

\* JPEGDecoder.decode_image(framed_data, 'pil', default_size): the image alone
JPEGDecoder_decode_image(framed_data, default_size, oracle) ==
    LET attempts == JPEGDecoder_attempts(framed_data)
        k == FirstSuccess(attempts, oracle)
    IN  IF k # 0
        THEN ImageOutcome(attempts[k].strategy, [j \in 1..k |-> attempts[j].strategy],
                          fix_black_regions(oracle.image, default_size), NoRatio)
        ELSE ImageOutcome("placeholder", [j \in 1..Len(attempts) |-> attempts[j].strategy],
                          GrayImage(default_size), NoRatio)

\* strategy 4 was entered: ImageFile.LOAD_TRUNCATED_IMAGES = True
JPEGDecoder_sets_truncated(framed_data, oracle) ==
    LET attempts == JPEGDecoder_attempts(framed_data)
        k == FirstSuccess(attempts, oracle)
    IN  k = 0 \/ attempts[k].strategy = "truncated"

----------------------------------------------------------------------------
(* The decode_image scenario: byte streams arrive at a JPEG2000BGRDecoder  *)
(* (built with or without use_block_codec) and at a JPEGDecoder, one call  *)
(* after the other in one process.                                         *)

MaxPrefix == 10    \* streams cut short are cut to 0..MaxPrefix bytes

\* a block-coded frame, a legacy JP2B frame, a legacy JPEG frame, and bare
\* compressed bytes with two SOI markers and one EOI marker
BaseStreams ==
    { encode([block_size |-> 1, fec_strategy |-> "repetition", fec_level |-> 2],
             <<255, 216>>, "jpeg2000bgr"),
      JP2B \o PackU32(2) \o <<255, 255, 79, 79>>,
      legacy_frame(<<255, 216, 255, 217>>),
      <<255, 216, 0, 255, 216, 255, 217>> }

\* every base stream whole, and cut to each length up to MaxPrefix
Streams ==
    BaseStreams \cup {Slice(b, 0, n) : b \in BaseStreams, n \in 0..MaxPrefix}

InitDecoder ==
    /\ load_truncated_images = FALSE
    /\ dpc = "idle"
    /\ call = << >>
    /\ outcome = << >>

\* JPEG2000BGRDecoder(use_block_codec).decode_image(framed_data, default_size=...)
DecodeJPEG2000BGR(use_block_codec, framed_data, default_size, oracle) ==
    /\ dpc = "idle"
    /\ dpc' = "done"
    /\ call' = [decoder |-> "jpeg2000bgr", use_block_codec |-> use_block_codec,
                framed_data |-> framed_data, default_size |-> default_size,
                oracle |-> oracle, truncated_on_entry |-> load_truncated_images]
    /\ outcome' = JPEG2000BGRDecoder_decode_image(use_block_codec, framed_data,
                                                  default_size, oracle)
    /\ UNCHANGED load_truncated_images

\* JPEGDecoder().decode_image(framed_data, default_size=...)
DecodeJPEG(framed_data, default_size, oracle) ==
    /\ dpc = "idle"
    /\ dpc' = "done"
    /\ call' = [decoder |-> "jpeg", use_block_codec |-> FALSE,
                framed_data |-> framed_data, default_size |-> default_size,
                oracle |-> oracle, truncated_on_entry |-> load_truncated_images]
    /\ outcome' = JPEGDecoder_decode_image(framed_data, default_size, oracle)
    /\ load_truncated_images' =
            (load_truncated_images \/ JPEGDecoder_sets_truncated(framed_data, oracle))

\* the caller takes the outcome; the process goes on to the next stream
NextStream ==
    /\ dpc = "done"
    /\ dpc' = "idle"
    /\ call' = << >>
    /\ outcome' = << >>
    /\ UNCHANGED load_truncated_images

----------------------------------------------------------------------------
(* SimpleTransmitter and SimpleReceiver (py5g_phy_comm/transmitter.py,     *)
(* receiver.py): bytes -> bits -> symbols, and back, without OFDM.         *)

\* np.unpackbits of one byte: most significant bit first
ByteBits(b) == [k \in 1..8 |-> (b \div (2 ^ (8 - k))) % 2]

\* np.unpackbits(np.frombuffer(input_data, dtype=np.uint8)).astype(int)
unpackbits(data) == Concat([i \in 1..Len(data) |-> ByteBits(data[i])])

RECURSIVE BitsValue(_)
\* the number written by a bit sequence, most significant bit first
BitsValue(bits) ==
    IF bits = << >> THEN 0
    ELSE 2 * BitsValue(SubSeq(bits, 1, Len(bits) - 1)) + bits[Len(bits)]

\* np.packbits(bits).tobytes(): the last byte is filled up with zero bits
packbits(bits) ==
    LET padded == Ljust(bits, ((Len(bits) + 7) \div 8) * 8)
    IN  [i \in 1..(Len(padded) \div 8) |-> BitsValue(SubSeq(padded, 8 * i - 7, 8 * i))]

\* the bits are left as they are; the bits of an incomplete last symbol are lost
pad_to_symbols_nopad(m, bits) == bits

\* np.pad(bits, (0, bits_per_symbol - remainder), 'constant') when remainder != 0
pad_to_symbols(m, bits) ==
    LET remainder == Len(bits) % bits_per_symbol(m)
    IN  IF remainder # 0
        THEN Ljust(bits, Len(bits) + bits_per_symbol(m) - remainder)
        ELSE bits

\* SimpleTransmitter(m).transmit(data)
SimpleTransmitter_transmit(m, data, rotation) ==
    modulate(m, pad_to_symbols(m, unpackbits(data)), rotation)

\* an optional argument: None, or a value
None == [given |-> FALSE, value |-> 0]
Some(v) == [given |-> TRUE, value |-> v]

\* SimpleReceiver(m).receive(syms, length) with demod_type='hard' and no
\* channel_gains
SimpleReceiver_receive(m, syms, length) ==
    LET bits == hard_demodulate(m, syms)
        num_bytes == Len(bits) \div 8
        bytes_array == packbits(Slice(bits, 0, num_bytes * 8))
    IN  IF length.given THEN Slice(bytes_array, 0, length.value) ELSE bytes_array

----------------------------------------------------------------------------
(* The link scenario: a SimpleTransmitter and a SimpleReceiver built with  *)
(* the same modulation_type; the symbols reach the receiver unmodified.    *)

MaxBytes == 2      \* longest payload given to transmit

LinkBytes == {0, 255, 165, 27}
LinkPayloads == SeqsUpTo(LinkBytes, MaxBytes)

\* outcomes of the np.random.rand() > 0.5 draws of pi/2-bpsk: all one way, all
\* the other way, alternating
LinkRotations(m, n) ==
    IF m = "pi/2-bpsk"
    THEN {[i \in 1..n |-> FALSE], [i \in 1..n |-> TRUE], [i \in 1..n |-> i % 2 = 0]}
    ELSE {[i \in 1..n |-> FALSE]}

InitLink ==
    /\ lpc = "idle"
    /\ link_modulation = "qpsk"
    /\ input_data = << >>
    /\ modulated_symbols = << >>
    /\ original_length = None
    /\ recovered_data = << >>

\* symbols = SimpleTransmitter(m).transmit(data)
Transmit(m, data, rotation) ==
    /\ lpc = "idle"
    /\ lpc' = "transmitted"
    /\ link_modulation' = m
    /\ input_data' = data
    /\ modulated_symbols' = SimpleTransmitter_transmit(m, data, rotation)
    /\ UNCHANGED <<original_length, recovered_data>>

\* SimpleReceiver(m).receive(symbols, length): length is len(data) or left out
Receive(length) ==
    /\ lpc = "transmitted"
    /\ lpc' = "received"
    /\ original_length' = length
    /\ recovered_data' = SimpleReceiver_receive(link_modulation, modulated_symbols, length)
    /\ UNCHANGED <<link_modulation, input_data, modulated_symbols>>

NextPair ==
    /\ lpc = "received"
    /\ lpc' = "idle"
    /\ link_modulation' = "qpsk"
    /\ input_data' = << >>
    /\ modulated_symbols' = << >>
    /\ original_length' = None
    /\ recovered_data' = << >>

----------------------------------------------------------------------------
(* Channels (py5g_phy_comm/channel.py).  A sample is a complex number with *)
(* integer parts, [re, im]; a signal is [is_complex, samples, norm2]: the  *)
(* array holds samples[n] / sqrt(norm2), and is_complex is np.iscomplexobj *)
(* of it.  The Gaussian draws are not part of                              *)
(* the state: a noise standard deviation is kept as the triple it is       *)
(* computed from (signal power, SNR, real or complex noise), and an output *)
(* sample as the noise-free sum together with the deviation of the noise   *)
(* added to it.  A fading gain is a complex value of a small set.          *)

Cx(re, im) == [re |-> re, im |-> im]
CxAdd(a, b) == Cx(a.re + b.re, a.im + b.im)
CxMul(a, b) == Cx(a.re * b.re - a.im * b.im, a.re * b.im + a.im * b.re)
CxScale(k, a) == Cx(k * a.re, k * a.im)
CxZero == Cx(0, 0)

\* np.abs(x) ** 2
AbsSquared(a) == a.re * a.re + a.im * a.im

\* np.mean(np.abs(signal) ** 2) as the fraction sum / count; of no samples it
\* is 0 / 0 (nan)
signal_power(signal) ==
    Ratio(SumSeq([n \in 1..Len(signal.samples) |-> AbsSquared(signal.samples[n])]),
          Len(signal.samples) * signal.norm2)

\* Channel._calculate_noise_std: sqrt(signal_power / snr_linear / 2) for complex
\* noise, sqrt(signal_power / snr_linear) for real noise
calculate_noise_std(self, signal) ==
    [power |-> signal_power(signal), snr_dB |-> self.snr_dB, is_complex |-> self.is_complex]

\* the channel kinds of get_channel
ChannelTypes == {"awgn", "rayleigh", "rician", "frequency_selective"}

\* FrequencySelectiveChannel.__init__ defaults: taps [1.0, 0.5, 0.25] (here in
\* quarters), delays [0, 1, 2]
DefaultTaps == <<4, 2, 1>>
DefaultDelays == <<0, 1, 2>>

\* tap_power = np.sum(np.abs(taps) ** 2); the channel's taps are taps / sqrt(tap_power)
tap_power(taps) == SumSeq([i \in 1..Len(taps) |-> taps[i] * taps[i]])

\* Channel.set_snr_dB forgets the SNR instead of the cached deviation
Channel_set_snr_dB_keepstd(self, snr_dB) ==
    [self EXCEPT !.snr_dB = snr_dB]

\* Channel.set_snr_dB: snr_dB, snr_linear = 10 ** (snr_dB / 10), noise_std = None
Channel_set_snr_dB(self, snr_dB) ==
    [self EXCEPT !.snr_dB = snr_dB, !.noise_std = None]

\* 10 * np.log10(snr_linear) for the linear SNRs of the scenario
Log10dB(snr_linear) ==
    CASE snr_linear = 1 -> 0
      [] snr_linear = 10 -> 10
      [] snr_linear = 100 -> 20

\* Channel.set_snr_linear: snr_linear, snr_dB = 10 * log10(snr_linear), noise_std = None
Channel_set_snr_linear(self, snr_linear) ==
    [self EXCEPT !.snr_dB = Log10dB(snr_linear), !.noise_std = None]

\* AWGNChannel(snr_dB), RayleighChannel(snr_dB), RicianChannel(snr_dB),
\* FrequencySelectiveChannel(snr_dB, taps, delays); the AWGN channel has no
\* channel_gains attribute, the others start with channel_gains = None
new_channel(kind, snr_dB, taps, delays) ==
    Channel_set_snr_dB(
        [kind |-> kind, snr_dB |-> 0, noise_std |-> None, is_complex |-> TRUE,
         has_gains |-> kind # "awgn", channel_gains |-> None,
         taps |-> IF kind = "frequency_selective" THEN taps ELSE << >>,
         delays |-> IF kind = "frequency_selective" THEN delays ELSE << >>],
        snr_dB)

\* get_channel(channel_type, snr_dB=...)
get_channel(channel_type, snr_dB) ==
    new_channel(channel_type, snr_dB, DefaultTaps, DefaultDelays)

\* the delayed signal is the circular shift np.roll(signal, delay)
delayed_signal_circular(samples, delay) ==
    [n \in 1..Len(samples) |-> samples[((n - 1 - delay) % Len(samples)) + 1]]

\* FrequencySelectiveChannel.propagate, one tap: zeros(num_samples) with
\* delayed_signal[delay:] = signal[:-delay] when delay > 0, signal.copy() otherwise
delayed_signal(samples, delay) ==
    IF delay > 0
    THEN LET num_samples == Len(samples)
             head == Min(delay, num_samples)                      \* delayed_signal[:delay]
             moved == Slice(samples, 0, num_samples - Min(delay, num_samples))  \* signal[:-delay]
         IN  [n \in 1..head |-> CxZero] \o moved
    ELSE samples

\* the noise standard deviation in force after a propagate call that measured
\* this signal: computed if none is cached
noise_std_after(self, measured) ==
    IF self.noise_std = None THEN Some(calculate_noise_std(self, measured)) ELSE self.noise_std

\* what a propagate call computed: the channel after it, the output samples
\* (each the noise-free sample plus noise of the channel's deviation), and what
\* each tap contributed to them
Propagated(self, output, contributions) ==
    [channel |-> self,
     output_signal |-> [n \in 1..Len(output.samples) |->
                          [clean |-> output.samples[n], noise_std |-> self.noise_std.value]],
     norm2 |-> output.norm2,
     contributions |-> contributions]

\* AWGNChannel.propagate
awgn_propagate(self, signal) ==
    LET c1 == [self EXCEPT !.is_complex = signal.is_complex]
        c2 == [c1 EXCEPT !.noise_std = noise_std_after(c1, signal)]
    IN  Propagated(c2, signal, <<signal.samples>>)

\* RayleighChannel.propagate and RicianChannel.propagate: gains holds the
\* channel gains drawn for this call, one per sample
fading_propagate(self, signal, gains) ==
    LET c1 == [self EXCEPT !.is_complex = signal.is_complex, !.channel_gains = Some(gains)]
        faded_signal ==
            [signal EXCEPT !.samples =
                [n \in 1..Len(signal.samples) |-> CxMul(signal.samples[n], gains[n])]]
        c2 == [c1 EXCEPT !.noise_std = noise_std_after(c1, faded_signal)]
    IN  Propagated(c2, faded_signal, <<faded_signal.samples>>)

RECURSIVE CxSum(_)
CxSum(q) == IF q = << >> THEN CxZero ELSE CxAdd(Head(q), CxSum(Tail(q)))

\* FrequencySelectiveChannel.propagate: fading_gains[n][i] is the gain drawn for
\* sample n and tap i
frequency_selective_propagate(self, signal, fading_gains) ==
    LET num_taps == Len(self.taps)
        num_samples == Len(signal.samples)
        c1 == [self EXCEPT !.is_complex = signal.is_complex]
        faded_delayed_signal ==
            [i \in 1..num_taps |->
                LET delayed == delayed_signal(signal.samples, self.delays[i])
                IN  [n \in 1..num_samples |->
                        CxScale(self.taps[i], CxMul(delayed[n], fading_gains[n][i]))]]
        output_signal ==
            [signal EXCEPT
                !.samples = [n \in 1..num_samples |->
                                CxSum([i \in 1..num_taps |-> faded_delayed_signal[i][n]])],
                !.norm2 = signal.norm2 * tap_power(self.taps)]
        c2 == [c1 EXCEPT !.noise_std = noise_std_after(c1, output_signal)]
        c3 == [c2 EXCEPT !.channel_gains = Some(fading_gains)]
    IN  Propagated(c3, output_signal, faded_delayed_signal)

\* channel.propagate(signal): gains is a sequence of per-sample gains, for the
\* frequency-selective channel a sequence of per-sample rows of per-tap gains
propagate(self, signal, gains) ==
    CASE self.kind = "awgn" -> awgn_propagate(self, signal)
      [] self.kind \in {"rayleigh", "rician"} -> fading_propagate(self, signal, gains)
      [] self.kind = "frequency_selective" ->
            frequency_selective_propagate(self, signal, gains)

----------------------------------------------------------------------------
(* The channel scenario: a channel is constructed, its SNR is set, signals *)
(* are propagated through it.                                              *)

MaxSamples == 2    \* longest signal given to propagate
MaxDelay == 2      \* largest tap delay of a frequency-selective channel
MaxCalls == 2      \* propagate calls counted between two SNR settings

ChanSnrs == {0, 10}
ChanLinearSnrs == {10}
ChanSampleValues == {Cx(1, 0), Cx(0, 2)}
RealSampleValues == {Cx(1, 0)}

\* complex signals of both sample values, real signals of the real one
ChanSignals ==
    {[is_complex |-> TRUE, samples |-> q, norm2 |-> 1] :
        q \in SeqsUpTo(ChanSampleValues, MaxSamples)}
    \cup {[is_complex |-> FALSE, samples |-> q, norm2 |-> 1] :
            q \in SeqsUpTo(RealSampleValues, MaxSamples)}

\* taps and delays of the frequency-selective channels of the scenario: the
\* defaults, and two taps of which the second is delayed by any number of samples
ChanTaps ==
    {[taps |-> DefaultTaps, delays |-> DefaultDelays]}
    \cup {[taps |-> <<1, 1>>, delays |-> <<0, d>>] : d \in 1..MaxDelay}

\* the taps and delays a constructor call of this kind is given
TapsFor(kind) ==
    IF kind = "frequency_selective"
    THEN ChanTaps
    ELSE {[taps |-> << >>, delays |-> << >>]}

GainValues == {Cx(0, 1)}

\* the gains drawn by one propagate call: here the same value for every sample
\* (and every tap)
GainDraws(self, num_samples) ==
    IF self.kind = "frequency_selective"
    THEN {[n \in 1..num_samples |-> [i \in 1..Len(self.taps) |-> g]] : g \in GainValues}
    ELSE IF self.kind = "awgn" THEN {<< >>}
    ELSE {[n \in 1..num_samples |-> g] : g \in GainValues}

NoSignal == [is_complex |-> TRUE, samples |-> << >>, norm2 |-> 1]
NoResult == [output_signal |-> << >>, norm2 |-> 1, contributions |-> << >>]

InitChannel ==
    /\ chan = get_channel("awgn", 10)
    /\ chan_op = "construct"
    /\ chan_signal = NoSignal
    /\ chan_result = NoResult
    /\ chan_calls = 0

\* chan = AWGNChannel(snr_dB) | RayleighChannel(snr_dB) | RicianChannel(snr_dB)
\*      | FrequencySelectiveChannel(snr_dB, taps, delays)
Construct(kind, snr_dB, td) ==
    /\ chan' = new_channel(kind, snr_dB, td.taps, td.delays)
    /\ chan_op' = "construct"
    /\ chan_signal' = NoSignal
    /\ chan_result' = NoResult
    /\ chan_calls' = 0

\* chan.set_snr_dB(snr_dB)
SetSnrDB(snr_dB) ==
    /\ chan' = Channel_set_snr_dB(chan, snr_dB)
    /\ chan_op' = "set_snr_dB"
    /\ chan_calls' = 0
    /\ UNCHANGED <<chan_signal, chan_result>>

\* chan.set_snr_linear(snr_linear)
SetSnrLinear(snr_linear) ==
    /\ chan' = Channel_set_snr_linear(chan, snr_linear)
    /\ chan_op' = "set_snr_linear"
    /\ chan_calls' = 0
    /\ UNCHANGED <<chan_signal, chan_result>>

\* output = chan.propagate(signal)
Propagate(signal, gains) ==
    /\ chan_calls < MaxCalls
    /\ LET done == propagate(chan, signal, gains)
       IN  /\ chan' = done.channel
           /\ chan_result' = [output_signal |-> done.output_signal,
                              norm2 |-> done.norm2,
                              contributions |-> done.contributions]
    /\ chan_op' = "propagate"
    /\ chan_signal' = signal
    /\ chan_calls' = chan_calls + 1

----------------------------------------------------------------------------
(* OFDM framing (Transmitter.ofdm_modulate, Receiver.ofdm_demodulate).     *)
(* A constellation symbol is a positive integer, 0 the value of an unused  *)
(* bin or of padding.  A time-domain sample is kept as what it is a sample *)
(* of: [bins, k, nfft, nsc] is sample k of the inverse transform of the    *)
(* row bins, scaled by sqrt(nfft / nsc).  The forward transform of nfft    *)
(* samples gives back a row only when they are the samples 0 .. nfft-1 of  *)
(* one inverse transform; any other block transforms to values that are no *)
(* symbols of the stream (Garbage).                                        *)

Garbage == -1

\* s[-c:] of Python: the last c elements, the whole sequence when c = 0 or
\* c > len(s)
LastOf(s, c) ==
    IF c = 0 \/ c > Len(s) THEN s ELSE SubSeq(s, Len(s) - c + 1, Len(s))

\* np.fft.ifft(row) * np.sqrt(nfft / nsc)
ifft_scaled(row, nfft, nsc) ==
    [k \in 1..Len(row) |-> [bins |-> row, k |-> k - 1, nfft |-> nfft, nsc |-> nsc]]

\* np.fft.fft(block) * np.sqrt(nsc / nfft)
fft_scaled(block, nfft, nsc) ==
    IF /\ Len(block) > 0
       /\ \A k \in 1..Len(block) :
            block[k] = [bins |-> block[1].bins, k |-> k - 1, nfft |-> nfft, nsc |-> nsc]
       /\ Len(block[1].bins) = Len(block)
    THEN block[1].bins
    ELSE [k \in 1..Len(block) |-> Garbage]

\* int(np.ceil(a / b)) for b > 0
CeilDiv(a, b) == (a + b - 1) \div b

\* ofdm_modulate with the halves of a group exchanged: the first half in the
\* bins above DC, the second half in the last bins
ofdm_modulate_firsthalflow(self, syms) ==
    LET nfft == self.nfft
        nsc == self.nsc
        num_ofdm_symbols == CeilDiv(Len(syms), nsc)
        padded_symbols == syms \o [i \in 1..(num_ofdm_symbols * nsc - Len(syms)) |-> 0]
        symbols_matrix ==
            [r \in 1..num_ofdm_symbols |-> SubSeq(padded_symbols, (r - 1) * nsc + 1, r * nsc)]
        \* [:, 1:(nsc // 2) + 1] = symbols_matrix[:, :nsc // 2] and
        \* [:, -(nsc // 2):] = symbols_matrix[:, nsc // 2:], bins counted from 0
        freq ==
            [r \in 1..num_ofdm_symbols |->
                [b \in 1..nfft |->
                    LET bin == b - 1
                    IN  IF bin >= nfft - (nsc \div 2)
                        THEN symbols_matrix[r][(nsc \div 2) + bin - (nfft - (nsc \div 2)) + 1]
                        ELSE IF bin >= 1 /\ bin < (nsc \div 2) + 1
                        THEN symbols_matrix[r][bin]
                        ELSE 0]]
        ifft_output == [r \in 1..num_ofdm_symbols |-> ifft_scaled(freq[r], nfft, nsc)]
        \* cp = ifft_output[:, -self.cp_length:]
        ofdm_symbols ==
            [r \in 1..num_ofdm_symbols |-> LastOf(ifft_output[r], self.cp_length) \o ifft_output[r]]
    IN  [ofdm_sym_freq |-> freq, tx_signal |-> Concat(ofdm_symbols)]

\* Transmitter.ofdm_modulate(symbols) with nsc even and 0 < nsc < nfft
ofdm_modulate(self, syms) ==
    LET nfft == self.nfft
        nsc == self.nsc
        num_ofdm_symbols == CeilDiv(Len(syms), nsc)
        padded_symbols == syms \o [i \in 1..(num_ofdm_symbols * nsc - Len(syms)) |-> 0]
        symbols_matrix ==
            [r \in 1..num_ofdm_symbols |-> SubSeq(padded_symbols, (r - 1) * nsc + 1, r * nsc)]
        \* [:, 1:(nsc // 2) + 1] = symbols_matrix[:, nsc // 2:] and
        \* [:, -(nsc // 2):] = symbols_matrix[:, :nsc // 2], bins counted from 0
        freq ==
            [r \in 1..num_ofdm_symbols |->
                [b \in 1..nfft |->
                    LET bin == b - 1
                    IN  IF bin >= nfft - (nsc \div 2)
                        THEN symbols_matrix[r][bin - (nfft - (nsc \div 2)) + 1]
                        ELSE IF bin >= 1 /\ bin < (nsc \div 2) + 1
                        THEN symbols_matrix[r][(nsc \div 2) + bin]
                        ELSE 0]]
        ifft_output == [r \in 1..num_ofdm_symbols |-> ifft_scaled(freq[r], nfft, nsc)]
        \* cp = ifft_output[:, -self.cp_length:]
        ofdm_symbols ==
            [r \in 1..num_ofdm_symbols |-> LastOf(ifft_output[r], self.cp_length) \o ifft_output[r]]
    IN  [ofdm_sym_freq |-> freq, tx_signal |-> Concat(ofdm_symbols)]

\* Receiver.ofdm_demodulate(rx_signal)
ofdm_demodulate(self, rx_signal) ==
    LET nfft == self.nfft
        nsc == self.nsc
        symbol_length == nfft + self.cp_length
        num_ofdm_symbols == Len(rx_signal) \div symbol_length
        rx_signal_reshaped ==
            [r \in 1..num_ofdm_symbols |->
                SubSeq(rx_signal, (r - 1) * symbol_length + 1, r * symbol_length)]
        ofdm_symbols == [r \in 1..num_ofdm_symbols |-> SliceFrom(rx_signal_reshaped[r], self.cp_length)]
        fft_output == [r \in 1..num_ofdm_symbols |-> fft_scaled(ofdm_symbols[r], nfft, nsc)]
        symbols_lower == [r \in 1..num_ofdm_symbols |-> LastOf(fft_output[r], nsc \div 2)]
        symbols_upper == [r \in 1..num_ofdm_symbols |-> Slice(fft_output[r], 1, (nsc \div 2) + 1)]
    IN  Concat([r \in 1..num_ofdm_symbols |-> symbols_lower[r] \o symbols_upper[r]])

----------------------------------------------------------------------------
(* CommunicationSystem (py5g_phy_comm/system.py): a transmitter, a channel *)
(* and a receiver; with use_simple=True a SimpleTransmitter and a          *)
(* SimpleReceiver, otherwise a Transmitter and a Receiver with OFDM        *)
(* framing.  The noise drawn by the channel shows in the state as the      *)
(* constellation points nearest to the samples the demodulator is given.   *)

\* the modulated symbols as the signal the channel is given
AsSignal(m, syms) ==
    [is_complex |-> TRUE,
     samples |-> [n \in 1..Len(syms) |-> Cx(syms[n].re, syms[n].im)],
     norm2 |-> normalization2(m)]

\* nfft, nsc and cp_length of the systems built with use_simple=False; with
\* four bins the transform's factors exp(2j*pi*b*k/4) are 1, j, -1, -j
SysOfdm == [nfft |-> 4, nsc |-> 2, cp_length |-> 1]

\* a constellation symbol as the positive integer the OFDM framing carries
\* (0 is padding and an unused bin)
SymbolCode(sym) == ((sym.re + 16) * 33) + (sym.im + 16) + 1

\* the constellation symbol of a code, of the modem's normalization
CodedSymbol(m, c) ==
    IF c <= 0
    THEN [re |-> 0, im |-> 0, norm2 |-> normalization2(m)]
    ELSE [re |-> ((c - 1) \div 33) - 16, im |-> ((c - 1) % 33) - 16,
          norm2 |-> normalization2(m)]

\* exp(2j * pi * k / 4)
W4(k) ==
    CASE k % 4 = 0 -> Cx(1, 0)
      [] k % 4 = 1 -> Cx(0, 1)
      [] k % 4 = 2 -> Cx(-1, 0)
      [] k % 4 = 3 -> Cx(0, -1)

\* sample k of np.fft.ifft(row) * sqrt(nfft / nsc) for nfft = 4, times
\* sqrt(normalization^2 * nfft * nsc)
TimeSample(m, sample) ==
    CxSum([b \in 1..Len(sample.bins) |->
              LET sym == CodedSymbol(m, sample.bins[b])
              IN  CxMul(Cx(sym.re, sym.im), W4((b - 1) * sample.k))])

\* the OFDM waveform as the signal the channel is given
AsWaveform(m, self, waveform) ==
    [is_complex |-> TRUE,
     samples |-> [n \in 1..Len(waveform) |-> TimeSample(m, waveform[n])],
     norm2 |-> normalization2(m) * self.nfft * self.nsc]

\* CommunicationSystem.transmitter.transmit(input_data), the symbols given:
\* what is stored as tx_signal, and the signal the channel is given
system_transmit(use_simple, m, syms) ==
    IF use_simple
    THEN [tx_signal |-> syms, signal |-> AsSignal(m, syms)]
    ELSE LET waveform ==
                ofdm_modulate(SysOfdm, [i \in 1..Len(syms) |-> SymbolCode(syms[i])]).tx_signal
         IN  [tx_signal |-> waveform, signal |-> AsWaveform(m, SysOfdm, waveform)]

\* the noise-free symbols the receiver demodulates: the channel's input for a
\* SimpleReceiver, Receiver.ofdm_demodulate of it for a Receiver
system_received_symbols(use_simple, m, syms) ==
    IF use_simple
    THEN syms
    ELSE LET received == ofdm_demodulate(SysOfdm, system_transmit(use_simple, m, syms).tx_signal)
         IN  [i \in 1..Len(received) |-> CodedSymbol(m, received[i])]

\* Channel.propagate_with_channel_info: channel_info.get('channel_gains', None)
channel_info_gains(self) ==
    IF self.has_gains /\ self.channel_gains # None THEN self.channel_gains ELSE None

\* what Receiver.receive and SimpleReceiver.receive (the same code) make of the
\* symbols with these channel gains: "plain" (no gains, no equalization),
\* "mismatch" (the warning: lengths differ, no equalization), "divided"
\* (symbols / (channel_gains + epsilon)), or "raises": gains of shape
\* (n, num_taps) with n = len(symbols) either cannot be broadcast against shape
\* (n,), or give rows of num_taps values, which _symbol_to_bits_hard cannot
\* compare with a threshold (ValueError)
SimpleReceiver_equalize(num_symbols, channel_gains, two_dimensional) ==
    IF channel_gains = None \/ Len(channel_gains.value) = 0
    THEN "plain"
    ELSE IF Len(channel_gains.value) # num_symbols
         THEN IF Len(channel_gains.value) = 1 THEN "divided" ELSE "mismatch"
         ELSE IF two_dimensional THEN "raises" ELSE "divided"

\* BER as differing bytes over bytes
calculate_error_rate_bytes(transmitted, received) ==
    LET min_length == Min(Len(transmitted), Len(received))
        t == Slice(transmitted, 0, min_length)
        r == Slice(received, 0, min_length)
        num_errors == Cardinality({i \in 1..min_length : t[i] # r[i]})
    IN  IF min_length > 0 THEN Ratio(num_errors, min_length) ELSE Ratio(0, 1)

\* CommunicationSystem._calculate_error_rate: num_errors / total_bits, 0.0 when
\* there are no bits
calculate_error_rate(transmitted, received) ==
    LET min_length == Min(Len(transmitted), Len(received))
        transmitted_bits == unpackbits(Slice(transmitted, 0, min_length))
        received_bits == unpackbits(Slice(received, 0, min_length))
        total_bits == Len(transmitted_bits)
        num_errors ==
            Cardinality({i \in 1..total_bits : transmitted_bits[i] # received_bits[i]})
    IN  IF total_bits > 0 THEN Ratio(num_errors, total_bits) ELSE Ratio(0, 1)

MaxSysBytes == 1   \* longest payload given to transmit_receive

SysModulations == {"qpsk", "64qam"}
SysSnrs == {0, 10}
SysBytes == {165}
SysPayloads == SeqsUpTo(SysBytes, MaxSysBytes)

\* names get_modem and get_channel do not know
UnsupportedModulations == {"8psk"}
UnsupportedChannels == {"nakagami"}

\* the symbols the noise moves across a decision boundary: none, the first,
\* or all of them
NoiseHits(n) == {{}, {i \in 1..n : i = 1}, 1..n}

\* the gains drawn by one propagate call of the system's channel
SysGainDraws(self, num_samples) ==
    IF self.kind = "frequency_selective"
    THEN {[n \in 1..num_samples |-> [i \in 1..Len(self.taps) |-> Cx(0, 1)]]}
    ELSE IF self.kind = "awgn" THEN {<< >>}
    ELSE {[n \in 1..num_samples |-> Cx(0, 1)]}

\* the constellation points nearest to the samples given to the demodulator:
\* a symbol hit by the noise is seen at the opposite point
Seen(syms, hits) ==
    [i \in 1..Len(syms) |->
        IF i \in hits THEN [syms[i] EXCEPT !.re = -syms[i].re, !.im = -syms[i].im]
        ELSE syms[i]]

\* no equalize call yet
NoEqualize == [branch |-> "none", num_gains |-> 0, num_symbols |-> 0]

\* CommunicationSystem(use_simple=True): qpsk, 10 dB, awgn, no stored results
InitSystem ==
    /\ sys_use_simple = TRUE
    /\ sys_modulation_type = "qpsk"
    /\ sys_snr_dB = 10
    /\ sys_channel_type = "awgn"
    /\ sys_transmitter = "qpsk"
    /\ sys_receiver = "qpsk"
    /\ sys_transmitter_type = "qpsk"
    /\ sys_receiver_type = "qpsk"
    /\ sys_channel = get_channel("awgn", 10)
    /\ transmitted_data = None
    /\ tx_signal = None
    /\ channel_output = None
    /\ received_data = None
    /\ error_rate = None
    /\ sys_op = "construct"
    /\ sys_returned = None
    /\ sys_raised = FALSE
    /\ sys_equalize = NoEqualize
    /\ sys_calls = 0

\* system = CommunicationSystem(use_simple, modulation_type=m, snr_dB=snr_dB,
\*                              channel_type=channel_type, nfft=4, nsc=2, cp_length=1)
\* with supported names
SystemConstruct(use_simple, m, snr_dB, channel_type) ==
    /\ sys_use_simple' = use_simple
    /\ sys_modulation_type' = m
    /\ sys_snr_dB' = snr_dB
    /\ sys_channel_type' = channel_type
    /\ sys_transmitter' = m
    /\ sys_receiver' = m
    /\ sys_transmitter_type' = m
    /\ sys_receiver_type' = m
    /\ sys_channel' = get_channel(channel_type, snr_dB)
    /\ transmitted_data' = None
    /\ tx_signal' = None
    /\ channel_output' = None
    /\ received_data' = None
    /\ error_rate' = None
    /\ sys_op' = "construct"
    /\ sys_returned' = None
    /\ sys_raised' = FALSE
    /\ sys_equalize' = NoEqualize

\* what transmit_receive(data) does when the channel draws these gains and the
\* noise hits these symbols
TransmitReceiveWith(data, syms, gains, hits) ==
    LET sent == system_transmit(sys_use_simple, sys_transmitter, syms)
        done == propagate(sys_channel, sent.signal, gains)
        channel_gains == channel_info_gains(done.channel)
        symbols_received == system_received_symbols(sys_use_simple, sys_transmitter, syms)
        equalized == SimpleReceiver_equalize(Len(symbols_received), channel_gains,
                                             done.channel.kind = "frequency_selective")
        seen == Seen(symbols_received, hits)
        received == SimpleReceiver_receive(sys_receiver, seen, Some(Len(data)))
        ber == calculate_error_rate(data, received)
    IN  /\ transmitted_data' = Some(data)
        /\ tx_signal' = Some(sent.tx_signal)
        /\ sys_channel' = done.channel
        /\ channel_output' = Some([samples |-> done.output_signal, seen |-> seen])
        /\ sys_op' = "transmit_receive"
        /\ sys_equalize' =
                [branch |-> equalized,
                 num_gains |-> IF channel_gains = None THEN 0 ELSE Len(channel_gains.value),
                 num_symbols |-> Len(symbols_received)]
        /\ IF equalized = "raises"
           THEN /\ hits = {}
                /\ sys_returned' = None
                /\ sys_raised' = TRUE
                /\ UNCHANGED <<received_data, error_rate>>
           ELSE /\ received_data' = Some(received)
                /\ error_rate' = Some(ber)
                /\ sys_returned' = Some([received_data |-> received, error_rate |-> ber])
                /\ sys_raised' = FALSE
        /\ UNCHANGED <<sys_use_simple, sys_modulation_type, sys_snr_dB, sys_channel_type,
                       sys_transmitter, sys_receiver, sys_transmitter_type,
                       sys_receiver_type>>

\* received_data, error_rate = system.transmit_receive(input_data)
TransmitReceive(data) ==
    LET syms == SimpleTransmitter_transmit(sys_transmitter, data,
                                           [i \in 1..(8 * Len(data)) |-> FALSE])
        num_samples == Len(system_transmit(sys_use_simple, sys_transmitter, syms).tx_signal)
    IN  \E gains \in SysGainDraws(sys_channel, num_samples), hits \in NoiseHits(Len(syms)) :
            TransmitReceiveWith(data, syms, gains, hits)

\* system.set_modulation_type(m), clearing the stored error rate
SetModulationType_clears(m) ==
    /\ sys_modulation_type' = m
    /\ sys_transmitter' = m
    /\ sys_receiver' = m
    /\ sys_transmitter_type' = m
    /\ sys_receiver_type' = m
    /\ sys_op' = "set_modulation_type"
    /\ sys_returned' = None
    /\ sys_raised' = FALSE
    /\ error_rate' = None
    /\ UNCHANGED <<sys_use_simple, sys_snr_dB, sys_channel_type, sys_channel,
                   transmitted_data, tx_signal, channel_output, received_data, sys_equalize>>

\* system.set_modulation_type(m) with a supported name
SetModulationType(m) ==
    /\ sys_modulation_type' = m
    /\ sys_transmitter' = m
    /\ sys_receiver' = m
    /\ sys_transmitter_type' = m
    /\ sys_receiver_type' = m
    /\ sys_op' = "set_modulation_type"
    /\ sys_returned' = None
    /\ sys_raised' = FALSE
    /\ UNCHANGED <<sys_use_simple, sys_snr_dB, sys_channel_type, sys_channel, storedResults,
                   sys_equalize>>

\* system.set_modulation_type(m) with a name get_modem rejects: the system and
\* the transmitter have recorded the name when Modem.__init__ raises ValueError
\* in transmitter.set_modulation_type; the receiver is not reached
SetModulationTypeRejected(m) ==
    /\ sys_modulation_type' = m
    /\ sys_transmitter_type' = m
    /\ sys_op' = "set_modulation_type"
    /\ sys_returned' = None
    /\ sys_raised' = TRUE
    /\ UNCHANGED <<sys_use_simple, sys_snr_dB, sys_channel_type, sys_transmitter,
                   sys_receiver, sys_receiver_type, sys_channel, storedResults,
                   sys_equalize>>

\* system.set_snr_dB(snr_dB)
SystemSetSnrDB(snr_dB) ==
    /\ sys_snr_dB' = snr_dB
    /\ sys_channel' = Channel_set_snr_dB(sys_channel, snr_dB)
    /\ sys_op' = "set_snr_dB"
    /\ sys_returned' = None
    /\ sys_raised' = FALSE
    /\ UNCHANGED <<sys_use_simple, sys_modulation_type, sys_channel_type, sys_transmitter,
                   sys_receiver, sys_transmitter_type, sys_receiver_type, storedResults,
                   sys_equalize>>

\* system.set_channel_type(channel_type, **channel_params) with a supported
\* name; snr_dB is the snr_dB entry of channel_params, None if there is none:
\* channel_params['snr_dB'] = channel_params.get('snr_dB', self.snr_dB)
SetChannelTypeWith(channel_type, snr_dB) ==
    /\ sys_channel_type' = channel_type
    /\ sys_channel' =
            get_channel(channel_type, IF snr_dB = None THEN sys_snr_dB ELSE snr_dB.value)
    /\ sys_op' = "set_channel_type"
    /\ sys_returned' = None
    /\ sys_raised' = FALSE
    /\ UNCHANGED <<sys_use_simple, sys_modulation_type, sys_snr_dB, sys_transmitter,
                   sys_receiver, sys_transmitter_type, sys_receiver_type, storedResults,
                   sys_equalize>>

\* system.set_channel_type(channel_type) with a supported name and no channel_params
SetChannelType(channel_type) == SetChannelTypeWith(channel_type, None)

\* system.set_channel_type(channel_type) with a name get_channel rejects: the
\* system has recorded the name when get_channel raises ValueError
SetChannelTypeRejected(channel_type) ==
    /\ sys_channel_type' = channel_type
    /\ sys_op' = "set_channel_type"
    /\ sys_returned' = None
    /\ sys_raised' = TRUE
    /\ UNCHANGED <<sys_use_simple, sys_modulation_type, sys_snr_dB, sys_transmitter,
                   sys_receiver, sys_transmitter_type, sys_receiver_type, sys_channel,
                   storedResults, sys_equalize>>

\* system.reset(): new transmitter and receiver of the recorded modulation_type
\* (ValueError before anything is replaced if get_modem rejects it), then a new
\* channel of the recorded channel_type and snr_dB (ValueError if get_channel
\* rejects it, the transmitter and the receiver already replaced), then the
\* stored results are cleared
SystemReset ==
    /\ sys_op' = "reset"
    /\ sys_returned' = None
    /\ IF sys_modulation_type \notin ModulationTypes
       THEN /\ sys_raised' = TRUE
            /\ UNCHANGED <<sys_transmitter, sys_receiver, sys_transmitter_type,
                           sys_receiver_type, sys_channel, storedResults>>
       ELSE /\ sys_transmitter' = sys_modulation_type
            /\ sys_receiver' = sys_modulation_type
            /\ sys_transmitter_type' = sys_modulation_type
            /\ sys_receiver_type' = sys_modulation_type
            /\ IF sys_channel_type \notin ChannelTypes
               THEN /\ sys_raised' = TRUE
                    /\ UNCHANGED <<sys_channel, storedResults>>
               ELSE /\ sys_raised' = FALSE
                    /\ sys_channel' = get_channel(sys_channel_type, sys_snr_dB)
                    /\ transmitted_data' = None
                    /\ tx_signal' = None
                    /\ channel_output' = None
                    /\ received_data' = None
                    /\ error_rate' = None
    /\ UNCHANGED <<sys_use_simple, sys_modulation_type, sys_snr_dB, sys_channel_type,
                   sys_equalize>>

----------------------------------------------------------------------------
(* The OFDM scenario: a symbol stream is framed by a Transmitter and the    *)
(* waveform is handed, unmodified, to a Receiver of the same parameters.   *)

MaxFft == 5        \* largest FFT size
MaxStream == 4     \* longest symbol stream given to ofdm_modulate

\* nfft, even nsc with 0 < nsc < nfft, cp_length in 0 .. nfft
OfdmParams ==
    {p \in [nfft : 3..MaxFft, nsc : 2..MaxFft, cp_length : 0..MaxFft] :
        /\ p.nsc % 2 = 0
        /\ p.nsc < p.nfft
        /\ p.cp_length <= p.nfft}

OfdmSymbolValues == {1, 2}
OfdmStreams == SeqsUpTo(OfdmSymbolValues, MaxStream)

InitOfdm ==
    /\ ofdm_pc = "idle"
    /\ ofdm_params = [nfft |-> 4, nsc |-> 2, cp_length |-> 1]
    /\ ofdm_input = << >>
    /\ ofdm_sym_freq = << >>
    /\ ofdm_tx_signal = << >>
    /\ ofdm_received = << >>

\* Transmitter(m, nfft, nsc, cp_length).ofdm_modulate(symbols)
OfdmModulate(p, syms) ==
    /\ ofdm_pc = "idle"
    /\ ofdm_pc' = "framed"
    /\ ofdm_params' = p
    /\ ofdm_input' = syms
    /\ ofdm_sym_freq' = ofdm_modulate(p, syms).ofdm_sym_freq
    /\ ofdm_tx_signal' = ofdm_modulate(p, syms).tx_signal
    /\ ofdm_received' = << >>

\* Receiver(m, nfft, nsc, cp_length).ofdm_demodulate(tx_signal)
OfdmDemodulate ==
    /\ ofdm_pc = "framed"
    /\ ofdm_pc' = "deframed"
    /\ ofdm_received' = ofdm_demodulate(ofdm_params, ofdm_tx_signal)
    /\ UNCHANGED <<ofdm_params, ofdm_input, ofdm_sym_freq, ofdm_tx_signal>>

\* the next pair of transmitter and receiver, nothing modulated yet
NextFrame ==
    /\ ofdm_pc = "deframed"
    /\ ofdm_pc' = "idle"
    /\ ofdm_params' = [nfft |-> 4, nsc |-> 2, cp_length |-> 1]
    /\ ofdm_input' = << >>
    /\ ofdm_sym_freq' = << >>
    /\ ofdm_tx_signal' = << >>
    /\ ofdm_received' = << >>

----------------------------------------------------------------------------
(* The majority vote scenario: BlockCodec._majority_vote is given the      *)
(* copies of one block, as _repetition_decode cuts them from a frame.      *)

MaxCopies == 4     \* most copies of a block (fec_level)
MaxVoteLen == 2    \* longest block voted on

VoteBytes == {0, 255}

\* one to MaxCopies copies of equal length
VoteGroups ==
    UNION {[1..c -> [1..n -> VoteBytes]] : c \in 1..MaxCopies, n \in 1..MaxVoteLen}

InitVote ==
    /\ vote_pc = "idle"
    /\ vote_blocks = << >>
    /\ vote_result = << >>

\* original_block = self._majority_vote(group)
Vote(blocks) ==
    /\ vote_pc = "idle"
    /\ vote_pc' = "voted"
    /\ vote_blocks' = blocks
    /\ vote_result' = majority_vote(blocks)

\* the next group
NextGroup ==
    /\ vote_pc = "voted"
    /\ vote_pc' = "idle"
    /\ vote_blocks' = << >>
    /\ vote_result' = << >>

----------------------------------------------------------------------------
(* The legacy interleaver scenario: a FEC body is interleaved as           *)
(* JPEGEncoder.encode_image does and de-interleaved as strategy 1 of       *)
(* JPEGDecoder.decode_image does.                                          *)

MaxBody == 33      \* longest FEC body interleaved

\* bodies of every length whose bytes tell their positions apart, and bodies of
\* zero bytes and of 255
Bodies ==
    {[k \in 1..n |-> (k * step) % 256] : n \in 0..MaxBody, step \in {1, 67}}
    \cup {[k \in 1..n |-> v] : n \in 1..MaxBody, v \in {0, 255}}

InitInterleave ==
    /\ il_pc = "idle"
    /\ il_fec_data = << >>
    /\ il_interleaved = << >>
    /\ il_deinterleaved = << >>

\* encode_image, step 2, on fec_data
Interleave(fec_data) ==
    /\ il_pc = "idle"
    /\ il_pc' = "interleaved"
    /\ il_fec_data' = fec_data
    /\ il_interleaved' = interleave(fec_data)
    /\ UNCHANGED il_deinterleaved

\* decode_image, strategy 1, step 1, on the encoder's interleaved_data
Deinterleave ==
    /\ il_pc = "interleaved"
    /\ il_pc' = "deinterleaved"
    /\ il_deinterleaved' = deinterleave(il_interleaved)
    /\ UNCHANGED <<il_fec_data, il_interleaved>>

\* the next body
NextBody ==
    /\ il_pc = "deinterleaved"
    /\ il_pc' = "idle"
    /\ il_fec_data' = << >>
    /\ il_interleaved' = << >>
    /\ il_deinterleaved' = << >>

----------------------------------------------------------------------------
(* Specifications *)

Init == InitCodec /\ InitModem /\ InitDecoder /\ InitLink /\ InitChannel /\ InitSystem /\ InitOfdm /\ InitVote
        /\ InitInterleave

NextCodec ==
    \/ /\ cpc = "idle"
       /\ \E self \in Codecs, data \in Payloads, t \in CodecTypes :
            Encode(self, data, t)
                /\ UNCHANGED <<modemVars, decoderVars, linkVars, channelVars, systemVars,
                            ofdmVars, voteVars, interleaveVars>>
    \/ /\ cpc = "encoded"
       /\ \E i \in 27..Len(frame), v \in CorruptBytes :
            CorruptBlockByte(i, v)
                /\ UNCHANGED <<modemVars, decoderVars, linkVars, channelVars, systemVars,
                            ofdmVars, voteVars, interleaveVars>>
    \/ /\ cpc = "encoded"
       /\ \E k \in 1..MaxCut : Truncate(k)
                /\ UNCHANGED <<modemVars, decoderVars, linkVars, channelVars, systemVars,
                            ofdmVars, voteVars, interleaveVars>>
    \/ \E t \in CodecTypes : Decode(t)
                /\ UNCHANGED <<modemVars, decoderVars, linkVars, channelVars, systemVars,
                            ofdmVars, voteVars, interleaveVars>>
    \/ \E t \in CodecTypes : BlockDecode(t)
                /\ UNCHANGED <<modemVars, decoderVars, linkVars, channelVars, systemVars,
                            ofdmVars, voteVars, interleaveVars>>
    \/ NextPayload
                /\ UNCHANGED <<modemVars, decoderVars, linkVars, channelVars, systemVars,
                            ofdmVars, voteVars, interleaveVars>>

SpecCodec == Init /\ [][NextCodec]_vars

NextModem ==
    \/ /\ mpc = "idle"
       /\ \E m \in ModulationTypes, bits \in BitSeqs :
           \E rotation \in Rotations(m, Min(MaxSymbols, Len(bits) \div bits_per_symbol(m))) :
            Modulate(m, bits, rotation)
                /\ UNCHANGED <<codecVars, decoderVars, linkVars, channelVars, systemVars,
                            ofdmVars, voteVars, interleaveVars>>
    \/ /\ mpc = "idle"
       /\ \E m \in ModulationTypes, bits \in BitSeqs :
            ModulateRejects(m, bits)
                /\ UNCHANGED <<codecVars, decoderVars, linkVars, channelVars, systemVars,
                            ofdmVars, voteVars, interleaveVars>>
    \/ Demodulate
                /\ UNCHANGED <<codecVars, decoderVars, linkVars, channelVars, systemVars,
                            ofdmVars, voteVars, interleaveVars>>
    \/ /\ mpc = "idle"
       /\ \E m \in QamTypes : \E point \in ReceivedPoints(m) :
            DemodulateReceived(m, point)
       /\ UNCHANGED <<codecVars, decoderVars, linkVars, channelVars, systemVars, ofdmVars,
                      voteVars, interleaveVars>>
    \/ NextBits
                /\ UNCHANGED <<codecVars, decoderVars, linkVars, channelVars, systemVars,
                            ofdmVars, voteVars, interleaveVars>>

SpecModem == Init /\ [][NextModem]_vars

NextDecoder ==
    \/ /\ dpc = "idle"
       /\ \E use_block_codec \in BOOLEAN, framed_data \in Streams, default_size \in Sizes :
           \E oracle \in Oracles(DecompressorInputs(framed_data)) :
            DecodeJPEG2000BGR(use_block_codec, framed_data, default_size, oracle)

                /\ UNCHANGED <<codecVars, modemVars, linkVars, channelVars, systemVars,
                            ofdmVars, voteVars, interleaveVars>>
    \/ /\ dpc = "idle"
       /\ \E framed_data \in Streams, default_size \in Sizes :
           \E oracle \in Oracles(Len(JPEGDecoder_attempts(framed_data))) :
            DecodeJPEG(framed_data, default_size, oracle)

                /\ UNCHANGED <<codecVars, modemVars, linkVars, channelVars, systemVars,
                            ofdmVars, voteVars, interleaveVars>>
    \/ NextStream
                /\ UNCHANGED <<codecVars, modemVars, linkVars, channelVars, systemVars,
                            ofdmVars, voteVars, interleaveVars>>

SpecDecoder == Init /\ [][NextDecoder]_vars

NextLink ==
    \/ /\ lpc = "idle"
       /\ \E m \in ModulationTypes, data \in LinkPayloads :
           \E rotation \in LinkRotations(m, (8 * Len(data) + bits_per_symbol(m) - 1)
                                                \div bits_per_symbol(m)) :
            Transmit(m, data, rotation)
                /\ UNCHANGED <<codecVars, modemVars, decoderVars, channelVars, systemVars,
                            ofdmVars, voteVars, interleaveVars>>
    \/ Receive(Some(Len(input_data)))
                /\ UNCHANGED <<codecVars, modemVars, decoderVars, channelVars, systemVars,
                            ofdmVars, voteVars, interleaveVars>>
    \/ Receive(None)
                /\ UNCHANGED <<codecVars, modemVars, decoderVars, channelVars, systemVars,
                            ofdmVars, voteVars, interleaveVars>>
    \/ NextPair
                /\ UNCHANGED <<codecVars, modemVars, decoderVars, channelVars, systemVars,
                            ofdmVars, voteVars, interleaveVars>>

SpecLink == Init /\ [][NextLink]_vars

NextChannel ==
    \/ \E kind \in ChannelTypes, snr_dB \in ChanSnrs :
         \E td \in TapsFor(kind) :
            Construct(kind, snr_dB, td)

                /\ UNCHANGED <<codecVars, modemVars, decoderVars, linkVars, systemVars,
                            ofdmVars, voteVars, interleaveVars>>
    \/ \E snr_dB \in ChanSnrs :
            SetSnrDB(snr_dB)
                /\ UNCHANGED <<codecVars, modemVars, decoderVars, linkVars, systemVars,
                            ofdmVars, voteVars, interleaveVars>>
    \/ \E snr_linear \in ChanLinearSnrs :
            SetSnrLinear(snr_linear)

                /\ UNCHANGED <<codecVars, modemVars, decoderVars, linkVars, systemVars,
                            ofdmVars, voteVars, interleaveVars>>
    \/ \E signal \in ChanSignals :
         \E gains \in GainDraws(chan, Len(signal.samples)) :
            Propagate(signal, gains)

                /\ UNCHANGED <<codecVars, modemVars, decoderVars, linkVars, systemVars,
                            ofdmVars, voteVars, interleaveVars>>

SpecChannel == Init /\ [][NextChannel]_vars

NextSystem ==
    \/ \E data \in SysPayloads :
            TransmitReceive(data)
                /\ UNCHANGED sys_calls
                /\ UNCHANGED <<codecVars, modemVars, decoderVars, linkVars, channelVars,
                            ofdmVars, voteVars, interleaveVars>>
    \/ \E m \in SysModulations :
            SetModulationType(m)
                /\ UNCHANGED sys_calls
                /\ UNCHANGED <<codecVars, modemVars, decoderVars, linkVars, channelVars,
                            ofdmVars, voteVars, interleaveVars>>
    \/ \E snr_dB \in SysSnrs :
            SystemSetSnrDB(snr_dB)
                /\ UNCHANGED sys_calls
                /\ UNCHANGED <<codecVars, modemVars, decoderVars, linkVars, channelVars,
                            ofdmVars, voteVars, interleaveVars>>
    \/ \E channel_type \in ChannelTypes :
            SetChannelType(channel_type)
                /\ UNCHANGED sys_calls
                /\ UNCHANGED <<codecVars, modemVars, decoderVars, linkVars, channelVars,
                            ofdmVars, voteVars, interleaveVars>>

SpecSystem == Init /\ [][NextSystem]_vars

MaxSysCalls == 3   \* calls made on one system of the configuration scenario

\* the payload, the SNRs and the channel parameters of the configuration scenario
ConfigPayloads == {<<165>>}
ConfigSnrs == {10}
ConfigChannelParams == {None, Some(20)}

NextConfig ==
    \/ /\ \E use_simple \in BOOLEAN :
            SystemConstruct(use_simple, "qpsk", 10, "awgn")
       /\ sys_calls' = 0
       /\ UNCHANGED <<codecVars, modemVars, decoderVars, linkVars, channelVars, ofdmVars,
                      voteVars, interleaveVars>>
    \/ /\ sys_calls < MaxSysCalls
       /\ \E data \in ConfigPayloads :
            TransmitReceive(data)
       /\ sys_calls' = sys_calls + 1
       /\ UNCHANGED <<codecVars, modemVars, decoderVars, linkVars, channelVars, ofdmVars,
                      voteVars, interleaveVars>>
    \/ /\ sys_calls < MaxSysCalls
       /\ \E m \in SysModulations :
            SetModulationType(m)
       /\ sys_calls' = sys_calls + 1
       /\ UNCHANGED <<codecVars, modemVars, decoderVars, linkVars, channelVars, ofdmVars,
                      voteVars, interleaveVars>>
    \/ /\ sys_calls < MaxSysCalls
       /\ \E m \in UnsupportedModulations :
            SetModulationTypeRejected(m)
       /\ sys_calls' = sys_calls + 1
       /\ UNCHANGED <<codecVars, modemVars, decoderVars, linkVars, channelVars, ofdmVars,
                      voteVars, interleaveVars>>
    \/ /\ sys_calls < MaxSysCalls
       /\ \E snr_dB \in ConfigSnrs :
            SystemSetSnrDB(snr_dB)
       /\ sys_calls' = sys_calls + 1
       /\ UNCHANGED <<codecVars, modemVars, decoderVars, linkVars, channelVars, ofdmVars,
                      voteVars, interleaveVars>>
    \/ /\ sys_calls < MaxSysCalls
       /\ \E channel_type \in ChannelTypes, snr_dB \in ConfigChannelParams :
            SetChannelTypeWith(channel_type, snr_dB)
       /\ sys_calls' = sys_calls + 1
       /\ UNCHANGED <<codecVars, modemVars, decoderVars, linkVars, channelVars, ofdmVars,
                      voteVars, interleaveVars>>
    \/ /\ sys_calls < MaxSysCalls
       /\ \E channel_type \in UnsupportedChannels :
            SetChannelTypeRejected(channel_type)
       /\ sys_calls' = sys_calls + 1
       /\ UNCHANGED <<codecVars, modemVars, decoderVars, linkVars, channelVars, ofdmVars,
                      voteVars, interleaveVars>>
    \/ /\ sys_calls < MaxSysCalls
       /\ SystemReset
       /\ sys_calls' = sys_calls + 1
       /\ UNCHANGED <<codecVars, modemVars, decoderVars, linkVars, channelVars, ofdmVars,
                      voteVars, interleaveVars>>

SpecConfig == Init /\ [][NextConfig]_vars

NextOfdm ==
    \/ /\ ofdm_pc = "idle"
       /\ \E p \in OfdmParams, syms \in OfdmStreams :
            OfdmModulate(p, syms)
                /\ UNCHANGED <<codecVars, modemVars, decoderVars, linkVars, channelVars,
                               systemVars, voteVars, interleaveVars>>
    \/ OfdmDemodulate

                /\ UNCHANGED <<codecVars, modemVars, decoderVars, linkVars, channelVars,
                            systemVars, voteVars, interleaveVars>>
    \/ NextFrame

                /\ UNCHANGED <<codecVars, modemVars, decoderVars, linkVars, channelVars,
                            systemVars, voteVars, interleaveVars>>

SpecOfdm == Init /\ [][NextOfdm]_vars

NextVote ==
    \/ /\ vote_pc = "idle"
       /\ \E blocks \in VoteGroups :
            Vote(blocks)
                /\ UNCHANGED <<codecVars, modemVars, decoderVars, linkVars, channelVars,
                               systemVars, ofdmVars, interleaveVars>>
    \/ NextGroup
            /\ UNCHANGED <<codecVars, modemVars, decoderVars, linkVars, channelVars,
                           systemVars, ofdmVars, interleaveVars>>

SpecVote == Init /\ [][NextVote]_vars

----------------------------------------------------------------------------
(* Properties of BlockCodec, checked under SpecCodec *)

\* the decode call was made on the encoding instance with the encoding tag
DecodedBySameInstance ==
    cpc = "decoded" /\ dec.by = "instance" /\ dec.codec_type = codec_type

\* C1: with the framed bytes unmodified, the encoding instance decodes every
\* payload back to itself, for every tag, both strategies and every level.
C1_RoundTrip ==
    (DecodedBySameInstance /\ damage = "none") => result = Returned(payload)

C1_Witness ==
    /\ DecodedBySameInstance /\ damage = "none"
    /\ enc.fec_strategy = "xor" /\ enc.block_size = 2 /\ Len(payload) = 1
    /\ result = Returned(payload)

\* the frame as it left the encoder
SentFrame == encode(enc, payload, codec_type)

\* number of original blocks of the payload
NumBlocks == (Len(payload) + enc.block_size - 1) \div enc.block_size

\* copies of byte i (from 1) of original block b (from 0) that the link changed
CorruptedCopies(b, i) ==
    Cardinality({c \in 0..(enc.fec_level - 1) :
        LET at == 26 + (b * enc.fec_level + c) * enc.block_size + i
        IN  frame[at] # SentFrame[at]})

Tolerated(level) == (level - 1) \div 2

\* one byte position, level copies, one more than the tolerated number of them
\* changed, and the vote differs from the original byte
VoteCanFail(level) ==
    \E orig \in PayloadBytes, col \in [1..level -> PayloadBytes \cup CorruptBytes] :
        /\ Cardinality({k \in 1..level : col[k] # orig}) = Tolerated(level) + 1
        /\ majority_vote([k \in 1..level |-> <<col[k]>>]) # <<orig>>

\* C5: Repetition FEC of level L returns the original payload when at every byte
\* position at most floor((L-1)/2) copies are corrupted, and the bound is
\* tight: with one more corrupted copy the voted byte can differ.
C5_RepetitionTolerance ==
    /\ (/\ DecodedBySameInstance
        /\ enc.fec_strategy = "repetition"
        /\ damage # "trunc"
        /\ \A b \in 0..(NumBlocks - 1), i \in 1..enc.block_size :
                CorruptedCopies(b, i) <= Tolerated(enc.fec_level))
       => result = Returned(payload)
    /\ \A level \in 1..MaxLevel : VoteCanFail(level)

C5_Witness ==
    /\ DecodedBySameInstance /\ damage = "corrupt"
    /\ enc.fec_strategy = "repetition" /\ enc.fec_level = 3
    /\ Len(payload) = 2 /\ enc.block_size = 1
    /\ CorruptedCopies(0, 1) = 1 /\ CorruptedCopies(1, 1) = 1
    /\ result = Returned(payload)

\* C6 (as claimed): block_decode, which constructs a default instance, recovers
\* the payload of a frame made by block_encode with any block size, strategy
\* and level.
C6_SelfDescribing ==
    (cpc = "decoded" /\ dec.by = "block_decode" /\ dec.codec_type = codec_type
        /\ damage = "none")
    => result = Returned(payload)

NamedTypes == {"jpeg", "jpeg2000", "jpeg2000bgr"}

\* C7: decode returns None for a stream shorter than 18 bytes and for a stream
\* whose first four bytes are not the marker of the requested tag; a frame of
\* one of the three named tags is rejected under each other one of them.
C7_Rejects ==
    /\ (cpc = "decoded" /\ (Len(frame) < 18 \/ Slice(frame, 0, 4) # Marker(dec.codec_type)))
       => result = NoneResult
    /\ (cpc = "decoded" /\ codec_type \in NamedTypes /\ dec.codec_type \in NamedTypes
            /\ dec.codec_type # codec_type)
       => result = NoneResult

C7_Witness ==
    /\ cpc = "decoded" /\ Len(frame) >= 18 /\ damage = "none" /\ Len(payload) > 0
    /\ codec_type = "jpeg2000bgr" /\ dec.codec_type = "jpeg2000"
    /\ result = NoneResult

\* C8 (as claimed): a stream holding fewer block bytes than its header declares
\* is reported as a failure, and every returned payload has the length stored
\* in the header.
C8_TruncatedFails ==
    cpc = "decoded" =>
        /\ (/\ Len(frame) >= 26
            /\ Slice(frame, 0, 4) = Marker(dec.codec_type)
            /\ Len(frame) - 26 < UnpackU32(Slice(frame, 18, 22)) * UnpackU32(Slice(frame, 22, 26)))
           => result = NoneResult
        /\ (~result.none) => Len(result.data) = UnpackU32(Slice(frame, 4, 8))

----------------------------------------------------------------------------
(* Properties of Modem, checked under SpecModem *)

\* C2 (as claimed): for every scheme and every bit sequence whose length is a
\* multiple of bits-per-symbol, hard demodulation of the unmodified symbols
\* returns the bits that were modulated.
C2_ModemRoundTrip ==
    mpc = "demodulated" => output_bits = input_bits

----------------------------------------------------------------------------
(* Properties of decode_image, checked under SpecDecoder *)

\* C3 (as claimed): for every input stream of any length, decode_image
\* returns a result and lets no exception escape to its caller.
C3_NeverRaises ==
    dpc = "done" => outcome.kind = "returned"

\* the stream carries no marker the called decoder recognises
NoMagicMarker ==
    IF call.decoder = "jpeg2000bgr"
    THEN ~StartsWith(call.framed_data, BLKB) /\ ~StartsWith(call.framed_data, JP2B)
    ELSE Find(call.framed_data, JPEG, 0) = -1

C9_RatioInUnitInterval ==
    (dpc = "done" /\ outcome.kind = "returned" /\ outcome.ratio # NoRatio) =>
        /\ outcome.ratio.den > 0
        /\ 0 <= outcome.ratio.num
        /\ outcome.ratio.num <= outcome.ratio.den

----------------------------------------------------------------------------
(* SimpleTransmitter / SimpleReceiver *)

\* C11: for BPSK, QPSK, 16-QAM and 64-QAM, receive(transmit(D), len(D)) = D
\* when the symbols are handed over unmodified, whatever the number of zero
\* bits appended to fill the last symbol.
C11_LinkRoundTrip ==
    (/\ lpc = "received"
     /\ link_modulation \in {"bpsk", "qpsk", "16qam", "64qam"}
     /\ original_length = Some(Len(input_data)))
    => recovered_data = input_data

\* a 64-QAM transmission of one byte: 8 bits, 4 padding bits, 2 symbols
C11_Witness ==
    /\ lpc = "received"
    /\ link_modulation = "64qam"
    /\ original_length = Some(Len(input_data))
    /\ input_data = <<165>>
    /\ Len(modulated_symbols) = 2
    /\ recovered_data = input_data


\* the noise-free part of the last propagate call's output: the signal whose
\* power the call measures
CleanOutput ==
    [is_complex |-> chan.is_complex,
     samples |-> [n \in 1..Len(chan_result.output_signal) |->
                    chan_result.output_signal[n].clean],
     norm2 |-> chan_result.norm2]

\* two powers are the same fraction
SamePower(a, b) == a.num * b.den = b.num * a.den

\* C17: after FrequencySelectiveChannel.propagate, a tap with delay d > 0
\* contributes zero to the output samples 0 .. d-1 and, to every output sample
\* n >= d, the input sample n - d times the tap's gain for sample n and the tap
\* coefficient; nothing wraps around from the end of the signal, also when d is
\* at least the signal length.
C17_TapDelayZeroFilled ==
    (chan_op = "propagate" /\ chan.kind = "frequency_selective") =>
        \A i \in 1..Len(chan.taps) :
            chan.delays[i] > 0 =>
                \A n \in 0..(Len(chan_signal.samples) - 1) :
                    chan_result.contributions[i][n + 1] =
                        IF n < chan.delays[i]
                        THEN CxZero
                        ELSE CxScale(chan.taps[i],
                                     CxMul(chan_signal.samples[n - chan.delays[i] + 1],
                                           chan.channel_gains.value[n + 1][i]))

\* a two-sample signal went through the default taps: the tap delayed by one
\* carries the first sample to the second output, the tap delayed by two (the
\* signal length) contributes nothing
C17_Witness ==
    /\ chan_op = "propagate"
    /\ chan.kind = "frequency_selective"
    /\ chan.delays = <<0, 1, 2>>
    /\ chan_signal.samples = <<Cx(0, 2), Cx(1, 0)>>
    /\ chan_result.contributions[2] = <<CxZero, CxScale(2, CxMul(Cx(0, 2), chan.channel_gains.value[2][2]))>>
    /\ chan_result.contributions[3] = <<CxZero, CxZero>>

\* C20: noise_std is None after construction and after every set_snr_dB or
\* set_snr_linear call; a propagate call that finds it None computes it from
\* the signal it measures, and a propagate call that finds a value keeps that
\* value unchanged.
C20_NoiseStdCaching ==
    [][/\ chan_op' \in {"construct", "set_snr_dB", "set_snr_linear"}
            => chan'.noise_std = None
       /\ (chan_op' = "propagate" /\ chan.noise_std = None)
            => /\ chan'.noise_std # None
               /\ SamePower(chan'.noise_std.value.power, signal_power(CleanOutput'))
               /\ chan'.noise_std.value.snr_dB = chan'.snr_dB
       /\ (chan_op' = "propagate" /\ chan.noise_std # None)
            => chan'.noise_std = chan.noise_std]_vars

\* a second propagate call since the SNR was set kept the cached value although
\* the signal it carried has another power
C20_Witness ==
    /\ chan_op = "propagate"
    /\ chan_calls = 2
    /\ chan.noise_std # None
    /\ Len(chan_signal.samples) > 0
    /\ chan.noise_std.value.power.den > 0
    /\ ~SamePower(chan.noise_std.value.power, signal_power(CleanOutput))


\* bit k of a byte, k = 0 being the least significant
BitOf(b, k) == (b \div (2 ^ k)) % 2

\* the number of bit positions in which the first n bytes of t and r differ
DifferingBits(t, r, n) ==
    SumSeq([i \in 1..n |-> Cardinality({k \in 0..7 : BitOf(t[i], k) # BitOf(r[i], k)})])

\* C12: the BER returned by transmit_receive is the number of differing bits of
\* the transmitted and the received bytes, both cut to the shorter length,
\* divided by 8 times that length; it is 0.0 when that length is 0, and it lies
\* in [0, 1].
C12_BitErrorRate ==
    (sys_op = "transmit_receive" /\ sys_returned # None) =>
        LET t == transmitted_data.value
            r == sys_returned.value.received_data
            n == Min(Len(t), Len(r))
            ber == sys_returned.value.error_rate
        IN  /\ ber = IF n = 0 THEN Ratio(0, 1) ELSE Ratio(DifferingBits(t, r, n), 8 * n)
            /\ ber.den > 0
            /\ 0 <= ber.num
            /\ ber.num <= ber.den

\* one qpsk symbol of a one-byte payload was hit: two of eight bits differ
C12_Witness ==
    /\ sys_op = "transmit_receive"
    /\ sys_returned # None
    /\ transmitted_data = Some(<<165>>)
    /\ sys_returned.value.received_data # <<165>>
    /\ sys_returned.value.error_rate = Ratio(2, 8)

\* C13: set_modulation_type, set_snr_dB and set_channel_type leave the stored
\* results (transmitted_data, tx_signal, channel_output, received_data,
\* error_rate) as they were.
C13_SettersKeepResults ==
    [][sys_op' \in {"set_modulation_type", "set_snr_dB", "set_channel_type"}
            => UNCHANGED storedResults]_vars

\* the modulation was changed after a transmission: the stored signal is still
\* the one of the former scheme
C13_Witness ==
    /\ sys_op = "set_modulation_type"
    /\ error_rate # None
    /\ tx_signal # None
    /\ Len(tx_signal.value) > 0
    /\ tx_signal.value[1].norm2 # normalization2(sys_modulation_type)


\* the symbols followed by the zero padding to a multiple of nsc
PaddedStream ==
    ofdm_input
        \o [i \in 1..(CeilDiv(Len(ofdm_input), ofdm_params.nsc) * ofdm_params.nsc
                        - Len(ofdm_input)) |-> 0]

\* C14: for even nsc < nfft and any symbol stream, ofdm_demodulate of
\* ofdm_modulate(symbols) gives the symbols in their original order followed by
\* the zero padding to a multiple of nsc, and bin 0 (DC) of every row the
\* transmitter filled is left unused.
C14_DeframeInvertsFrame ==
    ofdm_pc = "deframed" =>
        /\ ofdm_received = PaddedStream
        /\ \A r \in 1..Len(ofdm_sym_freq) : ofdm_sym_freq[r][1] = 0


\* the byte values that share the highest count in a column of copies
TiedValues(col) ==
    {v \in {col[k] : k \in 1..Len(col)} :
        \A j \in 1..Len(col) : Occurrences(col, col[j]) <= Occurrences(col, v)}

\* the largest element of a non-empty set of numbers
Largest(S) == CHOOSE v \in S : \A w \in S : w <= v

\* the copy in which a value of the set first appears in the column
FirstAmong(col, S) ==
    CHOOSE k \in 1..Len(col) : col[k] \in S /\ \A j \in 1..(k - 1) : col[j] \notin S

\* C15 (as stated): when two or more byte values tie for the highest count
\* among the copies, the vote gives the numerically larger value, whatever the
\* order of the copies.
C15_TieLargerValue ==
    vote_pc = "voted" =>
        \A i \in 1..Len(vote_result) :
            LET col == ColumnOf(vote_blocks, i)
            IN  Cardinality(TiedValues(col)) >= 2 => vote_result[i] = Largest(TiedValues(col))

\* C15 (amended): when two or more byte values tie for the highest count among
\* the copies, the vote gives the tied value that appears first in the order of
\* the copies.
C15_TieFirstSeen ==
    vote_pc = "voted" =>
        \A i \in 1..Len(vote_result) :
            LET col == ColumnOf(vote_blocks, i)
            IN  Cardinality(TiedValues(col)) >= 2
                    => vote_result[i] = col[FirstAmong(col, TiedValues(col))]

\* two copies that differ, the smaller value first: the vote gives the smaller
C15_Witness ==
    /\ vote_pc = "voted"
    /\ vote_blocks = <<(<<0>>), (<<255>>)>>
    /\ vote_result = <<0>>


\* bit pattern number n of a scheme, most significant bit first
PatternBits(m, n) ==
    [i \in 1..bits_per_symbol(m) |-> (n \div (2 ^ (bits_per_symbol(m) - i))) % 2]

\* |symbol|^2 of a bit pattern before the division by the normalization constant
PatternEnergy(m, n) ==
    LET symbol == map_bits_to_symbol(m, PatternBits(m, n), FALSE)
    IN  symbol.re * symbol.re + symbol.im * symbol.im

RECURSIVE EnergySum(_, _, _)
\* the sum of PatternEnergy over the patterns lo .. hi
EnergySum(m, lo, hi) ==
    IF lo > hi THEN 0
    ELSE IF lo = hi THEN PatternEnergy(m, lo)
    ELSE EnergySum(m, lo, (lo + hi) \div 2) + EnergySum(m, ((lo + hi) \div 2) + 1, hi)

\* the sum over all bit patterns of one symbol
ConstellationEnergy(m) == EnergySum(m, 0, (2 ^ bits_per_symbol(m)) - 1)

\* C16: for the scheme of every modem in use, the sum over all 2^bits_per_symbol
\* bit patterns of the unnormalized |symbol|^2 equals 2^bits_per_symbol times
\* the square of the normalization constant, i.e. the mean symbol power is 1.
C16_UnitMeanPower ==
    mpc = "modulated" =>
        ConstellationEnergy(modulation_type)
            = (2 ^ bits_per_symbol(modulation_type)) * normalization2(modulation_type)


\* the place of a strategy in the fallback chain of JPEGDecoder.decode_image
StrategyRank(strategy) ==
    CASE strategy = "framed" -> 1
      [] strategy = "boundary" -> 2
      [] strategy = "whole" -> 3
      [] strategy = "truncated" -> 4
      [] strategy = "placeholder" -> 5

\* the decompressor opened the bytes of the j-th attempt of the call
AttemptOpened(j) ==
    /\ call.oracle.succeeds_at = j
    /\ JPEGDecoder_attempts(call.framed_data)[j].data # << >>

C19_MagicDispatch ==
    (/\ dpc = "done"
     /\ call.decoder = "jpeg2000bgr"
     /\ StartsWith(call.framed_data, BLKB)
     /\ ~detect_frame_type_raises(call.framed_data)
     /\ ~decode(DefaultCodec, call.framed_data, "jpeg2000bgr").none
     /\ decode(DefaultCodec, call.framed_data, "jpeg2000bgr").data # << >>
     /\ call.oracle.succeeds_at = 1)
    => (outcome.kind = "returned" /\ outcome.source = "block")


\* C21: on every propagate call the noise added to the output has the standard
\* deviation computed from the power of the signal that this call measures
\* (the faded signal for fading channels), from the real or complex kind of
\* this call's signal and from the current SNR; on the second and later calls
\* of one channel instance as on the first.
C21_NoiseFromCallPower ==
    (chan_op = "propagate" /\ Len(chan_signal.samples) > 0) =>
        \A n \in 1..Len(chan_result.output_signal) :
            LET applied == chan_result.output_signal[n].noise_std
            IN  /\ SamePower(applied.power, signal_power(CleanOutput))
                /\ applied.is_complex = chan_signal.is_complex
                /\ applied.snr_dB = chan.snr_dB


\* C22: for every cp_length in 0 .. nfft the framed waveform has
\* ceil(len(symbols) / nsc) * (nfft + cp_length) samples; each block of
\* nfft + cp_length samples, the symbol length the receiver cuts the waveform
\* by, is one OFDM symbol: its body of nfft samples is the scaled inverse
\* transform of the symbol's frequency row, and its first cp_length samples
\* are a copy of the body's last cp_length samples.
C22_CyclicPrefix ==
    ofdm_pc # "idle" =>
        LET nfft == ofdm_params.nfft
            cp_length == ofdm_params.cp_length
            symbol_length == nfft + cp_length
            count == CeilDiv(Len(ofdm_input), ofdm_params.nsc)
        IN  /\ Len(ofdm_tx_signal) = count * symbol_length
            /\ \A r \in 1..count :
                LET sym == SubSeq(ofdm_tx_signal, (r - 1) * symbol_length + 1, r * symbol_length)
                    body == SubSeq(sym, cp_length + 1, symbol_length)
                IN  /\ body = ifft_scaled(ofdm_sym_freq[r], nfft, ofdm_params.nsc)
                    /\ SubSeq(sym, 1, cp_length) = SubSeq(body, nfft - cp_length + 1, nfft)

\* C23 as stated: the first half of each group of nsc symbols is in the bins
\* 1 .. nsc/2 above DC, the second half in the last nsc/2 bins.
C23_FirstHalfAboveDC ==
    ofdm_pc # "idle" =>
        \A r \in 1..Len(ofdm_sym_freq) : \A j \in 1..(ofdm_params.nsc \div 2) :
            LET half == ofdm_params.nsc \div 2
                group == SubSeq(PaddedStream, (r - 1) * ofdm_params.nsc + 1, r * ofdm_params.nsc)
            IN  /\ ofdm_sym_freq[r][1 + j] = group[j]
                /\ ofdm_sym_freq[r][(ofdm_params.nfft - half) + j] = group[half + j]

\* C23: when framing, the second half of each group of nsc symbols is placed in
\* the bins 1 .. nsc/2 above DC and the first half in the last nsc/2 bins, each
\* half in its order; bin 0 and the bins between the halves are zero.
C23_SecondHalfAboveDC ==
    ofdm_pc # "idle" =>
        /\ Len(ofdm_sym_freq) = CeilDiv(Len(ofdm_input), ofdm_params.nsc)
        /\ \A r \in 1..Len(ofdm_sym_freq) :
            LET half == ofdm_params.nsc \div 2
                nfft == ofdm_params.nfft
                group == SubSeq(PaddedStream, (r - 1) * ofdm_params.nsc + 1, r * ofdm_params.nsc)
            IN  /\ Len(ofdm_sym_freq[r]) = nfft
                /\ \A j \in 1..half :
                    /\ ofdm_sym_freq[r][1 + j] = group[half + j]
                    /\ ofdm_sym_freq[r][(nfft - half) + j] = group[j]
                /\ \A b \in 1..nfft :
                    (b = 1 \/ (b > half + 1 /\ b <= nfft - half)) => ofdm_sym_freq[r][b] = 0

\* a group whose halves differ was framed: the second half is above DC
C23_Witness ==
    /\ ofdm_pc = "framed"
    /\ ofdm_params.nfft = 5
    /\ ofdm_params.nsc = 4
    /\ ofdm_input = <<1, 1, 2>>
    /\ ofdm_sym_freq = <<<<0, 2, 0, 1, 1>>>>


\* C24: in transmit_receive of a non-empty payload, whenever the channel made
\* channel gains (rayleigh, rician, frequency_selective), the receiver equalizes
\* with them, with a SimpleReceiver and with an OFDM Receiver: equalize is given
\* one gain per received symbol (or a single gain) and divides; its branch
\* "lengths do not match, no equalization performed" is not taken.
C24_GainsEqualized ==
    (/\ sys_op = "transmit_receive"
     /\ sys_channel.kind # "awgn"
     /\ Len(transmitted_data.value) > 0) =>
        /\ sys_equalize.branch = "divided"
        /\ \/ sys_equalize.num_gains = sys_equalize.num_symbols
           \/ sys_equalize.num_gains = 1

\* C25: for every supported channel type and modulation, with use_simple True
\* and False, transmit_receive of a non-empty payload returns the recovered
\* bytes, as many as were given, and a BER; it does not raise.
C25_TransmitReceiveCompletes ==
    (sys_op = "transmit_receive" /\ Len(transmitted_data.value) > 0) =>
        /\ ~sys_raised
        /\ sys_returned # None
        /\ Len(sys_returned.value.received_data) = Len(transmitted_data.value)
        /\ sys_returned.value.error_rate.den > 0

\* C28: after any sequence of construction, set_snr_dB, set_channel_type (with
\* or without channel parameters), reset and transmit_receive, the SNR the
\* system records is the SNR of its current channel object.
C28_SnrInSync ==
    sys_snr_dB = sys_channel.snr_dB

\* C29: a set_modulation_type or set_channel_type call that raises for an
\* unsupported name leaves the system as it was: the recorded modulation_type
\* and channel_type, the scheme recorded by the transmitter and the receiver,
\* their modems, and the channel.
C29_RejectedLeavesUnchanged ==
    [][(sys_op' \in {"set_modulation_type", "set_channel_type"} /\ sys_raised')
            => UNCHANGED <<sys_modulation_type, sys_channel_type, sys_transmitter,
                           sys_receiver, sys_transmitter_type, sys_receiver_type,
                           sys_channel>>]_vars


NextInterleave ==
    \/ /\ il_pc = "idle"
       /\ \E fec_data \in Bodies : Interleave(fec_data)
       /\ UNCHANGED <<codecVars, modemVars, decoderVars, linkVars, channelVars, systemVars,
                      ofdmVars, voteVars>>
    \/ /\ Deinterleave
       /\ UNCHANGED <<codecVars, modemVars, decoderVars, linkVars, channelVars, systemVars,
                      ofdmVars, voteVars>>
    \/ /\ NextBody
       /\ UNCHANGED <<codecVars, modemVars, decoderVars, linkVars, channelVars, systemVars,
                      ofdmVars, voteVars>>

SpecInterleave == Init /\ [][NextInterleave]_vars

\* C26: the 16-byte block transpose interleaver of the legacy encoder and the
\* de-interleaver of the legacy decoder are inverse: de-interleaving the
\* interleaved FEC body gives the body, every byte at its position, followed
\* only by the zero bytes that pad it to a multiple of 16.
C26_DeinterleaveInverts ==
    il_pc = "deinterleaved" =>
        /\ Len(il_deinterleaved) = 16 * ((Len(il_fec_data) + 15) \div 16)
        /\ \A k \in 1..Len(il_deinterleaved) :
                il_deinterleaved[k] = IF k <= Len(il_fec_data) THEN il_fec_data[k] ELSE 0

\* a body of three blocks, the last with one byte, went through: the
\* interleaved bytes are in another order than the body's
C26_Witness ==
    /\ il_pc = "deinterleaved"
    /\ Len(il_fec_data) = 33
    /\ il_fec_data[2] = 2
    /\ il_interleaved[2] = 17
    /\ il_interleaved[3] = 33
    /\ SubSeq(il_deinterleaved, 1, 33) = il_fec_data


\* C27: for QPSK, 16-QAM, 64-QAM and 256-QAM and every received point off the
\* decision boundaries, the hard-decision bit at each position is the
\* minimum-distance decision: 0 exactly when the nearest constellation point
\* with that bit 0 is closer than the nearest with that bit 1, i.e. when the
\* max-log LLR of the soft demodulator is positive.
C27_HardIsMinDistance ==
    mpc = "decided" =>
        \A bit_pos \in 1..bits_per_symbol(modulation_type) :
            (output_bits[bit_pos] = 0) <=> (soft_llr(modulation_type, symbols[1], bit_pos) > 0)


\* C30: a decode_image call leaves the process-wide state as it found it, so
\* every call runs as the first call of a process does: the image library's
\* truncated-image loading is off when the call begins, the framed, boundary
\* and whole-stream strategies open their bytes strictly, and when the call
\* returns the mode is what it was when the call began, whether or not an
\* earlier call reached the truncated-load strategy.
C30_NoProcessWideState ==
    dpc = "done" =>
        /\ ~call.truncated_on_entry
        /\ load_truncated_images = call.truncated_on_entry

====
